---- MODULE Spec2Model ----
(***************************************************************************)
(* Model of the mycelium crawl engine of cozynet.                          *)
(*                                                                         *)
(* Crawler.Seed and Crawler.Crawl (JSON ingress-queue version) run against *)
(* a shared Redis store: the ingress list (frontier), the "visited" set,   *)
(* the blacklist set and the fungicide list (handoff).  Every Redis call   *)
(* is one atomic step and may fail; the workers are the goroutines that    *)
(* Mycelium.crawl starts on one shared Crawler value.                      *)
(*                                                                         *)
(* A second specification, SpecFilter, applies DomainFilter.Filter to      *)
(* host names given as sequences of labels.                                *)
(***************************************************************************)
EXTENDS Integers, Sequences, FiniteSets, TLC

(***************************************************************************)
(* Bounds of the model.                                                    *)
(***************************************************************************)
\* Number of crawl goroutines the model can start (flag -routines).
NumWorkers == 2
\* Number of store calls that may fail in one run.
MaxFaults == 2
\* Number of times Seed is called before the crawl starts.
MaxSeedCalls == 2
\* The retry ceiling.  The constant is used by Crawl; its declaration is
\* not part of the sources at hand, so the model is checked for this value
\* and the next one.
maxRetries == 1
\* Longest host name, in labels, given to DomainFilter.Filter.
MaxLabels == 3
\* Number of tokens of a document of link-bearing tags, and of attributes
\* of such a tag.
MaxTokens == 2
MaxAttrs == 2
\* Number of tokens of a document of text-bearing elements.
MaxTexts == 4

(***************************************************************************)
(* Locations and what url.Parse makes of them.                             *)
(***************************************************************************)
LocA == "https://a.com/"
LocX == "https://a.com/x"
LocEvil == "https://evil.com/"
LocSub == "https://sub.evil.com/"
LocNotEvil == "https://notevil.com/"
LocBad == "http://[bad"

Locations == {LocA, LocX, LocEvil, LocSub, LocNotEvil, LocBad}

\* url.Parse fails on an unterminated IPv6 literal.
UrlParseFails(loc) == loc = LocBad

\* (*url.URL).Hostname(), split at the dots.
Hostname(loc) ==
    CASE loc = LocA -> <<"a", "com">>
      [] loc = LocX -> <<"a", "com">>
      [] loc = LocEvil -> <<"evil", "com">>
      [] loc = LocSub -> <<"sub", "evil", "com">>
      [] loc = LocNotEvil -> <<"notevil", "com">>
      [] OTHER -> <<>>

(***************************************************************************)
(* DomainFilter.                                                           *)
(***************************************************************************)
Labels == {"evil", "EVIL", "com", "sub", "notevil", "localhost"}

\* strings.ToLower on one label.
ToLowerLabel(l) == IF l = "EVIL" THEN "evil" ELSE l

\* strings.ToLower on a host name.
ToLower(host) == [i \in 1..Len(host) |-> ToLowerLabel(host[i])]

\* NewDomainFilter: the map keys are the lower-cased entries.
NewDomainFilter(domains) == {ToLower(d) : d \in domains}

\* The parents the loop of Filter looks up: parts[i:] for 1 <= i < len(parts)-1
\* (0-based), that is the suffixes that start at the 1-based positions
\* 2..len(parts)-1.
FilterParents(host) == {SubSeq(host, i + 1, Len(host)) : i \in 1..(Len(host) - 2)}

\* DomainFilter.Filter on the host name of a URL; isNil stands for u == nil.
Filter(domains, isNil, hostname) ==
    IF isNil THEN FALSE
    ELSE LET host == ToLower(hostname) IN
         IF host = <<>> THEN FALSE
         ELSE \/ host \in domains
              \/ \E parent \in FilterParents(host) : parent \in domains

(***************************************************************************)
(* ProxyChooser.                                                           *)
(***************************************************************************)
ProxyOptions ==
    {[Username |-> "", Password |-> "", URL |-> "p1:8080"],
     [Username |-> "u", Password |-> "s", URL |-> "p2:8080"],
     [Username |-> "u", Password |-> "", URL |-> "p3:8080"]}

\* ProxyOption.String, as the pieces fmt.Sprintf puts together.
String(po) ==
    IF po.Username # "" /\ po.Password # ""
    THEN <<"http://", po.Username, ":", po.Password, "@", po.URL>>
    ELSE <<"http://", po.URL>>

\* Pick: "choice := pc.options[pc.index]" (the index counts from 0).
PickChoice(list, idx) == list[idx + 1]

\* Pick: "pc.index = (pc.index + 1) % len(pc.options)".
PickNextStuck(list, idx) == idx

PickNext(list, idx) == (idx + 1) % Len(list)

(***************************************************************************)
(* URLs.  A URL is the record of the fields of url.URL that the code       *)
(* reads; a path is the sequence of its segments.                          *)
(***************************************************************************)
RefPadded == " https://b.com/y "
RefAbs == "https://b.com/y"
RefNoScheme == "//cdn.example/x.js"
RefRooted == "/about"
RefRel == "x.html"
RefMailto == "mailto:a@b.com"
RefB == "b"
RefRootX == "/x"

\* The attribute values of the model.
Refs == {RefPadded, RefNoScheme, RefRooted, RefRel, RefMailto, RefB, RefRootX, LocBad}

TextPadded == " U "
TextBlank == " "

\* strings.TrimSpace on the strings of the model.
TrimSpace(s) ==
    CASE s = RefPadded -> RefAbs
      [] s = TextPadded -> "U"
      [] s = TextBlank -> ""
      [] OTHER -> s

NoURL == [Scheme |-> "", Opaque |-> "", Host |-> "", Path |-> <<>>]

HostURL(scheme, host, path) == [Scheme |-> scheme, Opaque |-> "", Host |-> host, Path |-> path]

\* url.Parse on the strings of the model.
UrlParse(s) ==
    CASE s = RefAbs      -> [err |-> FALSE, url |-> HostURL("https", "b.com", <<"y">>)]
      [] s = RefNoScheme -> [err |-> FALSE, url |-> HostURL("", "cdn.example", <<"x.js">>)]
      [] s = RefRooted   -> [err |-> FALSE, url |-> HostURL("", "", <<"about">>)]
      [] s = RefRel      -> [err |-> FALSE, url |-> HostURL("", "", <<"x.html">>)]
      [] s = RefB        -> [err |-> FALSE, url |-> HostURL("", "", <<"b">>)]
      [] s = RefRootX    -> [err |-> FALSE, url |-> HostURL("", "", <<"x">>)]
      [] s = RefMailto   -> [err |-> FALSE, url |-> [Scheme |-> "mailto", Opaque |-> "a@b.com", Host |-> "", Path |-> <<>>]]
      [] s = LocA        -> [err |-> FALSE, url |-> HostURL("https", "a.com", <<>>)]
      [] s = LocX        -> [err |-> FALSE, url |-> HostURL("https", "a.com", <<"x">>)]
      [] s = LocEvil     -> [err |-> FALSE, url |-> HostURL("https", "evil.com", <<>>)]
      [] s = LocSub      -> [err |-> FALSE, url |-> HostURL("https", "sub.evil.com", <<>>)]
      [] s = LocNotEvil  -> [err |-> FALSE, url |-> HostURL("https", "notevil.com", <<>>)]
      [] OTHER           -> [err |-> TRUE, url |-> NoURL]

\* The text of a path: "/" and the segments with "/" between them.
RECURSIVE PathString(_)
PathString(path) ==
    IF path = <<>> THEN "/"
    ELSE IF Len(path) = 1 THEN "/" \o path[1]
    ELSE "/" \o path[1] \o PathString(Tail(path))

\* (*url.URL).String() of a URL that has a host or an opaque part.
UrlString(u) ==
    (IF u.Scheme # "" THEN u.Scheme \o ":" ELSE "")
        \o (IF u.Opaque # "" THEN u.Opaque
            ELSE (IF u.Host # "" THEN "//" \o u.Host ELSE "") \o PathString(u.Path))

\* The path elements that the text of a URL without a host contributes.
Elements(u) == IF u.Scheme # "" THEN <<u.Scheme \o ":" \o u.Opaque>> ELSE u.Path

\* url.JoinPath(base, elem): the base with the element appended to its path.
JoinPathBase(base, u) == UrlParse(base).url

JoinPath(base, u) == [UrlParse(base).url EXCEPT !.Path = @ \o Elements(u)]

(***************************************************************************)
(* Page and its HTML parser.                                               *)
(***************************************************************************)
NewPage(loc) ==
    [Title |-> "", Description |-> "", Author |-> "", Keywords |-> <<>>, Headings |-> <<>>,
     Content |-> <<>>, Links |-> <<>>, ScriptLinks |-> <<>>, ScriptContent |-> <<>>,
     Location |-> loc]

\* Page.NormalizePageURL: a reference with a host is returned as parsed;
\* any other is joined to the page location.
NormalizePageURL(location, loc) ==
    LET parsed == UrlParse(TrimSpace(loc)) IN
    IF parsed.err THEN [err |-> TRUE, url |-> NoURL]
    ELSE IF parsed.url.Host # "" THEN [err |-> FALSE, url |-> parsed.url]
    ELSE [err |-> FALSE, url |-> JoinPath(location, parsed.url)]

\* NormalizePageURL of the earlier version of the file: the same without
\* the trimming (url.Parse rejects a reference that starts with a space,
\* whose first path segment then holds a colon).
NormalizePageURLEarlier(location, loc) ==
    LET parsed == UrlParse(loc) IN
    IF parsed.err THEN [err |-> TRUE, url |-> NoURL]
    ELSE IF parsed.url.Host # "" THEN [err |-> FALSE, url |-> parsed.url]
    ELSE [err |-> FALSE, url |-> JoinPath(location, parsed.url)]

\* The tokens of html.Tokenizer: Type, DataAtom and Attr of a tag, Data of
\* a text.
StartTag(atom, attrs) == [Type |-> "StartTag", DataAtom |-> atom, Data |-> "", Attr |-> attrs]
EndTag(atom) == [Type |-> "EndTag", DataAtom |-> atom, Data |-> "", Attr |-> <<>>]
Text(data) == [Type |-> "Text", DataAtom |-> "", Data |-> data, Attr |-> <<>>]

\* The loop over the attributes of a token: the normalized values of the
\* attributes named key, those that fail to normalize left out.
RECURSIVE AttrUrls(_, _, _)
AttrUrls(location, attrs, key) ==
    IF attrs = <<>> THEN <<>>
    ELSE LET a == Head(attrs)
             n == NormalizePageURL(location, a.Val)
         IN  (IF a.Key = key /\ ~n.err THEN <<n.url>> ELSE <<>>)
                 \o AttrUrls(location, Tail(attrs), key)

\* The "error normalizing url" lines that the same loop prints.
RECURSIVE AttrErrors(_, _, _)
AttrErrors(location, attrs, key) ==
    IF attrs = <<>> THEN 0
    ELSE (IF Head(attrs).Key = key /\ NormalizePageURL(location, Head(attrs).Val).err THEN 1 ELSE 0)
             + AttrErrors(location, Tail(attrs), key)

\* parseHtmlLink and parseHtmlScriptAttributes of the earlier version print
\* the error and go on to "append(p.Links, *normalizedUrl)" with a nil
\* normalizedUrl: the dereference panics.  This is the case for token t.
PanicsEarlier(location, t) ==
    /\ t.Type = "StartTag"
    /\ t.DataAtom \in {"a", "script"}
    /\ \E i \in 1..Len(t.Attr) :
          /\ t.Attr[i].Key = (IF t.DataAtom = "a" THEN "href" ELSE "src")
          /\ NormalizePageURLEarlier(location, t.Attr[i].Val).err

parseHtmlLink(location, links, t) == links \o AttrUrls(location, t.Attr, "href")

parseHtmlScriptAttributes(location, links, t) == links \o AttrUrls(location, t.Attr, "src")

\* The loop of parseHtmlMeta: the trimmed value of the last attribute named
\* key ("" when there is none).
RECURSIVE MetaAttr(_, _, _)
MetaAttr(attrs, key, sofar) ==
    IF attrs = <<>> THEN sofar
    ELSE MetaAttr(Tail(attrs), key,
                  IF Head(attrs).Key = key THEN TrimSpace(Head(attrs).Val) ELSE sofar)

\* strings.Split(content, ",") on the strings of the model.
Split(content) == IF content = "k1,k2" THEN <<"k1", "k2">> ELSE <<content>>

parseHtmlMeta(p, t) ==
    LET name == MetaAttr(t.Attr, "name", "")
        content == MetaAttr(t.Attr, "content", "")
    IN  IF content = "" THEN p
        ELSE CASE name = "description" -> [p EXCEPT !.Description = content]
               [] name = "keywords" -> [p EXCEPT !.Keywords = Split(content)]
               [] name = "author" -> [p EXCEPT !.Author = content]
               [] OTHER -> p

parseHtmlTagToken(p, t, tag) ==
    CASE tag = "a" -> [p EXCEPT !.Links = parseHtmlLink(p.Location, @, t)]
      [] tag = "script" -> [p EXCEPT !.ScriptLinks = parseHtmlScriptAttributes(p.Location, @, t)]
      [] tag = "meta" -> parseHtmlMeta(p, t)
      [] OTHER -> p

\* "p.Title = trimmed", done when the trimmed text is not empty.
parseHtmlTitle(p, trimmed) == [p EXCEPT !.Title = trimmed]

\* The atoms of the heading case and of the content case.
HeadingAtoms == {"h1", "h2"}
ContentAtoms == {"p", "span"}

\* parseHtmlTextToken, with the functions it calls: each trims the text and
\* does nothing with an empty one.
parseHtmlTextToken(p, t, tag) ==
    LET trimmed == TrimSpace(t.Data) IN
    IF trimmed = "" THEN p
    ELSE CASE tag \in HeadingAtoms -> [p EXCEPT !.Headings = Append(@, trimmed)]
           [] tag = "title" -> parseHtmlTitle(p, trimmed)
           [] tag = "script" -> [p EXCEPT !.ScriptContent = Append(@, trimmed)]
           [] tag \in ContentAtoms -> [p EXCEPT !.Content = Append(@, trimmed)]
           [] OTHER -> p

\* One turn of the loop of ParseHtmlPage on token t, tag being the atom of
\* the latest start tag: the page after it.
ParseToken(p, tag, t) ==
    CASE t.Type = "StartTag" -> parseHtmlTagToken(p, t, t.DataAtom)
      [] t.Type = "Text" -> parseHtmlTextToken(p, t, tag)
      [] OTHER -> p

\* "tag = t.DataAtom" is done for start tags only.
TagAfterNever(tag, t) == tag

TagAfterClosing(tag, t) ==
    CASE t.Type = "StartTag" -> t.DataAtom
      [] t.Type = "EndTag" -> ""
      [] OTHER -> tag

TagAfter(tag, t) == IF t.Type = "StartTag" THEN t.DataAtom ELSE tag

\* ParseHtmlPage.
RECURSIVE ParseHtmlPage(_, _, _)
ParseHtmlPage(p, tag, tokens) ==
    IF tokens = <<>> THEN p
    ELSE ParseHtmlPage(ParseToken(p, tag, Head(tokens)), TagAfter(tag, Head(tokens)), Tail(tokens))

\* What the tokenizer makes of
\* <html><head><title>T</title><meta name="description" content="D"></head>
\* <body><h1>H</h1><a href="/x">link</a></body></html>
ExampleHtml ==
    <<StartTag("html", <<>>), StartTag("head", <<>>),
      StartTag("title", <<>>), Text("T"), EndTag("title"),
      StartTag("meta", <<[Key |-> "name", Val |-> "description"], [Key |-> "content", Val |-> "D"]>>),
      EndTag("head"), StartTag("body", <<>>),
      StartTag("h1", <<>>), Text("H"), EndTag("h1"),
      StartTag("a", <<[Key |-> "href", Val |-> RefRootX]>>), Text("link"), EndTag("a"),
      EndTag("body"), EndTag("html")>>

Attrs == [Key : {"href", "src"}, Val : Refs]

\* The link-bearing start tags.
LinkTokens ==
    {StartTag(atom, attrs) : atom \in {"a", "script"},
                             attrs \in UNION {[1..n -> Attrs] : n \in 0..MaxAttrs}}

MetaNames == {"description", "keywords", "author", "viewport"}
MetaContents == {"D", "k1,k2", TextBlank}

\* The tokens of the text-bearing elements: start tags, meta tags, end
\* tags and texts.
\* What the tokenizer makes of <h1>H</h1> U <p>T</p>
ClosedHtml ==
    <<StartTag("h1", <<>>), Text("H"), EndTag("h1"), Text(TextPadded),
      StartTag("p", <<>>), Text("T"), EndTag("p")>>

TextTokens ==
    {StartTag(atom, <<>>) : atom \in {"title", "h1", "p", "script", "body"}}
        \cup {StartTag("meta", <<[Key |-> "name", Val |-> n], [Key |-> "content", Val |-> c]>>) :
                  n \in MetaNames, c \in MetaContents}
        \cup {StartTag("meta", <<[Key |-> "content", Val |-> "D"]>>),
              StartTag("meta", <<[Key |-> "name", Val |-> "description"]>>)}
        \cup {EndTag("")}
        \cup {Text(d) : d \in {"T", "H", TextPadded, TextBlank}}

\* What the tokenizer can return.
Tokens == LinkTokens \cup TextTokens

(***************************************************************************)
(* The wire form of an IngressItem.                                        *)
(***************************************************************************)
IngressItem(location, retries) == [location |-> location, retries |-> retries]

\* json.Marshal(IngressItem): {"location": ..., "retries": ...}
Marshal(item) == <<"location", item.location, "retries", item.retries>>

\* A payload that is not JSON.
Garbage == <<"{">>

\* json.Unmarshal succeeds on an object; absent fields keep their zero value.
UnmarshalFails(payload) == Len(payload) # 4

Unmarshal(payload) == IngressItem(payload[2], payload[4])

NoItem == IngressItem("", 0)

(***************************************************************************)
(* State.                                                                  *)
(***************************************************************************)
VARIABLES
    \* configuration of the one Crawler value (set by the CrawlerOptions)
    numCrawlers,            \* goroutines started by Mycelium.crawl
    fungicideQueueKey,      \* "" when no handoff queue is configured
    myceliumBlacklistKey,   \* "" when no shared blacklist is configured
    urlFilters,             \* domains of the DomainFilter ({} when none)
    seed,                   \* the seed list given to Seed
    leftover,               \* what the ingress list held at startup
    faultBudget,            \* store calls that may fail in this run
    \* the shared store
    frontier,               \* the ingress list: payloads, head first
    visited,                \* the Redis set "visited"
    blacklist,              \* the Redis blacklist set (host names)
    fungicide,              \* the handoff list
    stored,                 \* what the file store holds
    \* Seed
    seedPc, seedIdx, seedCalls, started,
    \* the crawl goroutines
    pc, curr, page, blFailed,
    resStatus,              \* status code of the response a goroutine holds (0: none)
    resType,                \* its Content-Type ("none": no response held)
    cancelled,              \* the context given to Crawl has been cancelled
    ret,                    \* what Crawl has returned: "running", "error" or "nil"
    \* the environment and the record of what happened
    faults,                 \* store calls that have failed so far
    visitedErr,             \* a call on the visited set has failed
    fetches,                \* GET requests issued per location (saturating)
    last,                   \* how the latest finished iteration ended
    lastLog,                \* the log record that the end of that iteration printed
    site,                   \* what the web serves: "lists" or "example"
    \* the idle policy of the batch loop (fields of the one Crawler value)
    maxIdleSeconds, idleSeconds,
    \* the ProxyChooser of the one Crawler value
    options,                \* its list of options (<<>>: no chooser configured)
    index,                  \* its round-robin index
    picked,                 \* the index a goroutine has read in a Pick under way (-1: none)
    indexWriters,           \* the goroutines that have written the index
    picks,                  \* what the calls of Pick have returned, oldest first
    \* DomainFilter.Filter applied to an input (SpecFilter)
    fDomains, fNil, fHost, fOut, fPc,
    \* a Page under construction by ParseHtmlPage (SpecParse)
    pLocation,              \* its location
    pDoc,                   \* the kind of document it is given ("none": no page)
    pTokens,                \* number of tokens read so far
    pTag,                   \* "tag": the atom of the latest start tag
    pPrev,                  \* the type of the latest token ("": none yet)
    pTitle, pDescription, pAuthor, pKeywords, pHeadings, pContent,
    pLinks, pScriptLinks, pScriptContent,
    pErrors,                \* "error normalizing url" lines printed so far
    pRef, pOut,             \* the latest call of NormalizePageURL and its result
    pVersion,               \* which version of the file the page runs: "earlier" or "current"
    pFault,                 \* the parse has panicked
    \* Crawler.ConsumeIngressQueue (SpecIngress)
    ingress,                \* the mycelium ingress list: outlink payloads, head first
    mainQueue,              \* the crawler's main queue: QueueItems, head first
    produced,               \* outlinks pushed to the ingress list so far
    consumeRet,             \* what ConsumeIngressQueue has returned ("running": nothing yet)
    consumeLast,            \* how its latest iteration ended
    \* the user-agent chooser of the one Crawler value and its use by GetPage
    userAgents,             \* the options of the chooser (<<>>: no chooser configured)
    uaPicks,                \* calls of userAgentChooser.Pick so far
    uaPicked,               \* what the latest Pick returned ("": none yet)
    lastAgent,              \* the User-Agent header of the latest request built ("": none yet)
    \* several engine instances calling Seed on the one store (SpecSeeders)
    instPc,                 \* where the Seed of each instance is ("off": not called)
    instIdx,                \* its position in the seed list
    \* the size-driven Crawl loop (SpecSized)
    crawlSize               \* its local variable "size"

config == <<numCrawlers, fungicideQueueKey, myceliumBlacklistKey, urlFilters, seed, leftover,
           faultBudget, blacklist, site>>
seeder == <<seedPc, seedIdx, seedCalls, started>>
filterVars == <<fDomains, fNil, fHost, fOut, fPc>>
runVars == <<cancelled, ret>>
idleVars == <<maxIdleSeconds, idleSeconds>>
proxyVars == <<options, index, picked, indexWriters, picks>>
parseVars == <<pLocation, pDoc, pTokens, pTag, pPrev, pTitle, pDescription, pAuthor, pKeywords, pHeadings,
               pContent, pLinks, pScriptLinks, pScriptContent, pErrors, pRef, pOut,
               pVersion, pFault>>
crawlerVars == <<runVars, idleVars, proxyVars, config, frontier, visited, fungicide, stored, seeder, pc, curr, page, resStatus, resType,
                 blFailed, faults, visitedErr, fetches, last, lastLog>>
ingressVars == <<ingress, mainQueue, produced, consumeRet, consumeLast>>
agentVars == <<userAgents, uaPicks, uaPicked, lastAgent>>
seedersVars == <<instPc, instIdx>>
sizedVars == <<crawlSize>>
vars == <<crawlerVars, filterVars, parseVars, ingressVars, agentVars, seedersVars, sizedVars>>

Workers == 1..NumWorkers

\* Engine instances that share the store.
NumInstances == 2

Instances == 1..NumInstances

\* fetches saturates one above the number of goroutines.
FetchCap == NumWorkers + 1

Min(a, b) == IF a < b THEN a ELSE b

\* The seed lists, the startup contents of the ingress list and of the
\* visited set, and the link lists of the pages served.
SeedLists == {<<>>, <<LocA, LocA>>, <<LocEvil, LocSub, LocNotEvil>>}

Leftovers ==
    {<<>>,
     <<Garbage, Marshal(IngressItem(LocBad, 0)), Marshal(IngressItem(LocX, maxRetries))>>}

VisitedAtStart == {{}, {LocA}}

LinkLists == {<<LocX, LocA>>}

BlacklistAtStart == {<<"evil", "com">>}

FilterDomainLists == {{}, {<<"EVIL", "com">>}}

\* What a GET can come back with: a transport error, or a content type
\* ("": the response has no Content-Type header).
Outcomes == {"error", "", "image/png", "text/plain", "text/html"}

\* The document of the anchors that link to the locations of a list.
LinkDoc(list) == [i \in 1..Len(list) |-> StartTag("a", <<[Key |-> "href", Val |-> list[i]]>>)]

\* The HTML documents that a GET of the location can come back with: on
\* the site of lists, the anchors of a link list; on the example site, the
\* example document at https://a.com/ and an empty document elsewhere.
Served(location) ==
    IF site = "example"
    THEN {IF location = LocA THEN ExampleHtml ELSE <<>>}
    ELSE {LinkDoc(list) : list \in LinkLists}

\* page.Links of the page that GetPage builds from a document, each as
\* neighbor.String().
PageLinks(location, doc) ==
    LET p == ParseHtmlPage(NewPage(location), "", doc) IN
    [i \in 1..Len(p.Links) |-> UrlString(p.Links[i])]

ServedLinks(location) == {PageLinks(location, doc) : doc \in Served(location)}

\* No log record.
NoLog == [location |-> "", reason |-> ""]

\* What Crawl prints where an iteration ends: the reason and the location
\* it names.  The ends "retries over the maximum" and "already visited" (a
\* bare continue) and the end of a stored page print nothing; the parse
\* error of a payload and the pop error name no location.
LogLine(outcome, location) ==
    CASE outcome = "popFailed" -> [location |-> "", reason |-> "Error popping from ingress queue"]
      [] outcome = "badJson" -> [location |-> "", reason |-> "failed to parse incoming JSON"]
      [] outcome \in {"requeued", "requeueLost"} -> [location |-> location, reason |-> "failed to check if visited"]
      [] outcome = "malformed" -> [location |-> location, reason |-> "malformed url"]
      [] outcome = "blocked" -> [location |-> location, reason |-> "[BLOCKED]"]
      [] outcome = "blacklisted" -> [location |-> location, reason |-> "[BLACKLISTED]"]
      [] outcome = "fetchFailed" -> [location |-> location, reason |-> "failed to get page"]
      [] outcome = "handoffFailed" -> [location |-> location, reason |-> "failed to push page to fungicide"]
      [] outcome = "sent" -> [location |-> location, reason |-> "[SENT TO FUNGICIDE]"]
      [] OTHER -> NoLog

\* The status codes of the responses served.
Statuses == {200, 404}

IsTextAlways(contentType) == TRUE

\* strings.HasPrefix(contentType, "text/")
IsText(contentType) == contentType \in {"text/plain", "text/html"}

\* strings.HasPrefix(contentType, "text/html")
IsHtml(contentType) == contentType = "text/html"

\* No idle policy: the service loop does not read these fields.
InitIdleOff ==
    /\ maxIdleSeconds = 0
    /\ idleSeconds = 0

\* No proxy chooser is configured (initProxyChooser returns nil).
InitProxyOff ==
    /\ options = <<>>
    /\ index = 0
    /\ picked = [w \in Workers |-> -1]
    /\ indexWriters = {}
    /\ picks = <<>>

\* No page is being parsed.
InitParseIdle ==
    /\ pLocation = ""
    /\ pDoc = "none"
    /\ pTokens = 0
    /\ pTag = ""
    /\ pPrev = ""
    /\ pTitle = ""
    /\ pDescription = ""
    /\ pAuthor = ""
    /\ pKeywords = <<>>
    /\ pHeadings = <<>>
    /\ pContent = <<>>
    /\ pLinks = <<>>
    /\ pScriptLinks = <<>>
    /\ pScriptContent = <<>>
    /\ pErrors = 0
    /\ pRef = ""
    /\ pOut = [err |-> FALSE, url |-> NoURL]
    /\ pVersion = "current"
    /\ pFault = FALSE

\* No user-agent chooser is configured (initUserAgentChooser returns nil).
InitAgentOff ==
    /\ userAgents = <<>>
    /\ uaPicks = 0
    /\ uaPicked = ""
    /\ lastAgent = ""

\* The size-driven loop is not running.
InitSizedOff == crawlSize = 0

\* A single engine instance: its Seed is the seeder above.
InitSeedersOff ==
    /\ instPc = [i \in Instances |-> "off"]
    /\ instIdx = [i \in Instances |-> 0]

\* ConsumeIngressQueue is not running and its lists are empty.
InitIngressIdle ==
    /\ ingress = <<>>
    /\ mainQueue = <<>>
    /\ produced = 0
    /\ consumeRet = "off"
    /\ consumeLast = "none"

InitFilterIdle ==
    /\ fDomains = {}
    /\ fNil = FALSE
    /\ fHost = <<>>
    /\ fOut = FALSE
    /\ fPc = "off"

\* One goroutine: every combination of the options, the seed lists and the
\* startup contents of the store.
InitSolo ==
    /\ numCrawlers = 1
    /\ fungicideQueueKey \in {"", "fungicide"}
    /\ myceliumBlacklistKey \in {"", "blacklist"}
    /\ urlFilters \in {NewDomainFilter(d) : d \in FilterDomainLists}
    /\ leftover \in Leftovers
    /\ seed \in (IF leftover = <<>> THEN SeedLists ELSE {<<LocA, LocA>>})
    /\ visited \in VisitedAtStart
    /\ faultBudget = MaxFaults

\* Several goroutines: the fallback mode (no handoff queue, no blacklist) on
\* an empty store, seeded with the same location twice; at most one store
\* call fails.
InitMany ==
    /\ numCrawlers \in 2..NumWorkers
    /\ fungicideQueueKey = ""
    /\ myceliumBlacklistKey = ""
    /\ urlFilters = {}
    /\ seed = <<LocA, LocA>>
    /\ leftover = <<>>
    /\ visited = {}
    /\ faultBudget = Min(1, MaxFaults)

\* The store, the seeder and the goroutines before anything has run.
InitEngine ==
    /\ frontier = leftover
    /\ blacklist = BlacklistAtStart
    /\ fungicide = <<>>
    /\ stored = <<>>
    /\ seedPc = "init"
    /\ seedIdx = 0
    /\ seedCalls = 0
    /\ started = FALSE
    /\ pc = [w \in Workers |-> "pop"]
    /\ curr = [w \in Workers |-> NoItem]
    /\ page = [w \in Workers |-> <<>>]
    /\ resStatus = [w \in Workers |-> 0]
    /\ resType = [w \in Workers |-> "none"]
    /\ cancelled = FALSE
    /\ ret = [w \in Workers |-> "running"]
    /\ blFailed = [w \in Workers |-> FALSE]
    /\ faults = 0
    /\ visitedErr = FALSE
    /\ fetches = [l \in Locations |-> 0]
    /\ last = "none"
    /\ lastLog = NoLog
    /\ InitFilterIdle

\* A crawler built with no option, on an empty store, that is never run.
InitNoCrawl ==
    /\ numCrawlers = 1
    /\ fungicideQueueKey = ""
    /\ myceliumBlacklistKey = ""
    /\ urlFilters = {}
    /\ seed = <<>>
    /\ leftover = <<>>
    /\ visited = {}
    /\ faultBudget = 0
    /\ site = "lists"
    /\ InitIdleOff
    /\ InitAgentOff
    /\ InitSeedersOff
    /\ InitSizedOff
    /\ InitEngine

Init ==
    /\ InitSolo \/ InitMany
    /\ site = "lists"
    /\ InitIdleOff
    /\ InitProxyOff
    /\ InitParseIdle
    /\ InitIngressIdle
    /\ InitAgentOff
    /\ InitSeedersOff
    /\ InitSizedOff
    /\ InitEngine

\* A store call can fail while the fault budget lasts.
CanFail == faults < faultBudget

\* A call that takes the context fails once the context is cancelled, and
\* can fail before that while the fault budget lasts.
CallFails == cancelled \/ CanFail

(***************************************************************************)
(* Crawler.Seed, as Mycelium.seed calls it before the crawl starts.        *)
(***************************************************************************)
\* "if size > 0": a non-empty ingress list skips the seed stage.
SeedSkipsNever(size) == FALSE

SeedSkips(size) == size > 0

\* The caller invokes Seed.
SeedCall ==
    /\ ~started
    /\ seedPc \in {"init", "nil"}
    /\ seedCalls < MaxSeedCalls
    /\ seedPc' = "size"
    /\ seedCalls' = seedCalls + 1
    /\ seedIdx' = 0
    /\ UNCHANGED <<config, frontier, visited, fungicide, stored, started, pc, curr, page, resStatus, resType,
                   blFailed, faults, visitedErr, fetches, last, lastLog, runVars, idleVars, proxyVars, filterVars, ingressVars, agentVars, seedersVars, sizedVars,
                   parseVars>>

\* IngressQueueSize, then the size test; an error is returned to the caller.
SeedSize ==
    /\ seedPc = "size"
    /\ \/ /\ CanFail
          /\ faults' = faults + 1
          /\ seedPc' = "err"
          /\ UNCHANGED seedIdx
       \/ /\ UNCHANGED faults
          /\ IF SeedSkips(Len(frontier)) \/ Len(seed) = 0
             THEN seedPc' = "nil" /\ UNCHANGED seedIdx
             ELSE seedPc' = "push" /\ seedIdx' = 1
    /\ UNCHANGED <<config, frontier, visited, fungicide, stored, seedCalls, started, pc, curr,
                   page, resStatus, resType, blFailed, visitedErr, fetches, last, lastLog, runVars, idleVars, proxyVars, filterVars, ingressVars, agentVars, seedersVars, sizedVars,
                   parseVars>>

\* One turn of the loop over the seed list: marshal and push one item.
SeedPush ==
    /\ seedPc = "push"
    /\ \/ /\ CanFail
          /\ faults' = faults + 1
          /\ seedPc' = "err"
          /\ UNCHANGED <<frontier, seedIdx>>
       \/ /\ UNCHANGED faults
          /\ frontier' = Append(frontier, Marshal(IngressItem(seed[seedIdx], 0)))
          /\ IF seedIdx = Len(seed)
             THEN seedPc' = "nil" /\ UNCHANGED seedIdx
             ELSE seedPc' = "push" /\ seedIdx' = seedIdx + 1
    /\ UNCHANGED <<config, visited, fungicide, stored, seedCalls, started, pc, curr, page, resStatus, resType,
                   blFailed, visitedErr, fetches, last, lastLog, runVars, idleVars, proxyVars, filterVars, ingressVars, agentVars, seedersVars, sizedVars,
                   parseVars>>

\* Mycelium.crawl: the goroutines start once seed has returned without error
\* (Mycelium.seed panics on an error).
StartCrawl ==
    /\ ~started
    /\ seedPc = "nil"
    /\ started' = TRUE
    /\ seedCalls' = 0
    /\ UNCHANGED <<config, frontier, visited, fungicide, stored, seedPc, seedIdx,
                   pc, curr, page, resStatus, resType, blFailed, faults, visitedErr, fetches, last, lastLog, runVars, idleVars, proxyVars, filterVars, ingressVars, agentVars, seedersVars, sizedVars,
                   parseVars>>

(***************************************************************************)
(* Crawler.Crawl: one goroutine w, one store call (or the GET) per step.   *)
(***************************************************************************)
Running(w) == started /\ w <= numCrawlers

\* "if curr.Retries > maxRetries"
OverRetriedLate(item) == item.retries > maxRetries + 1

OverRetried(item) == item.retries > maxRetries

\* The iteration ends: back to the pop, with the outcome noted.
NextPop(w, outcome) ==
    /\ pc' = [pc EXCEPT ![w] = "pop"]
    /\ curr' = [curr EXCEPT ![w] = NoItem]
    /\ page' = [page EXCEPT ![w] = <<>>]
    /\ resStatus' = [resStatus EXCEPT ![w] = 0]
    /\ resType' = [resType EXCEPT ![w] = "none"]
    /\ blFailed' = [blFailed EXCEPT ![w] = FALSE]
    /\ last' = outcome
    /\ lastLog' = LogLine(outcome, curr[w].location)

\* Crawl returns to its caller.
Return(w, value) ==
    /\ pc' = [pc EXCEPT ![w] = "returned"]
    /\ ret' = [ret EXCEPT ![w] = value]

\* The pop failed with an error other than "no items available in queue":
\* logged; then "select": the context is done and Crawl returns ctx.Err(),
\* or one second passes and the loop goes on.
OnPopError(w) ==
    IF cancelled
    THEN /\ Return(w, "error")
         /\ last' = "cancelled"
         /\ lastLog' = LogLine("popFailed", "")
         /\ UNCHANGED <<curr, page, resStatus, resType, blFailed>>
    ELSE /\ last' = "popFailed"
         /\ lastLog' = LogLine("popFailed", "")
         /\ UNCHANGED <<pc, ret, curr, page, resStatus, resType, blFailed>>

\* The pop timed out: "no items available in queue", next turn.
OnEmptyReturn(w) ==
    /\ Return(w, "nil")
    /\ last' = "empty"
    /\ lastLog' = NoLog
    /\ UNCHANGED <<curr, page, resStatus, resType, blFailed>>

OnEmpty(w) ==
    /\ last' = "empty"
    /\ lastLog' = NoLog
    /\ UNCHANGED <<pc, ret, curr, page, resStatus, resType, blFailed>>

\* PopFromMyceliumIngress (BLPop with a timeout), the decoding of the
\* payload and the retry ceiling.
PopFromMyceliumIngress(w) ==
    /\ Running(w)
    /\ pc[w] = "pop"
    /\ \/ \* the store is unreachable or the context is cancelled
          /\ CallFails
          /\ faults' = faults + 1
          /\ OnPopError(w)
          /\ UNCHANGED frontier
       \/ /\ ~cancelled
          /\ frontier = <<>>
          /\ OnEmpty(w)
          /\ UNCHANGED <<frontier, faults>>
       \/ /\ ~cancelled
          /\ frontier # <<>>
          /\ frontier' = Tail(frontier)
          /\ UNCHANGED <<faults, ret>>
          /\ IF UnmarshalFails(Head(frontier))
             THEN NextPop(w, "badJson")
             ELSE LET item == Unmarshal(Head(frontier)) IN
                  IF OverRetried(item)
                  THEN NextPop(w, "overRetried")
                  ELSE /\ pc' = [pc EXCEPT ![w] = "isVisited"]
                       /\ curr' = [curr EXCEPT ![w] = item]
                       /\ UNCHANGED <<page, resStatus, resType, blFailed, last, lastLog>>
    /\ UNCHANGED <<config, visited, fungicide, stored, seeder, visitedErr, fetches, cancelled,
                   idleVars, proxyVars, filterVars, ingressVars, agentVars, seedersVars, sizedVars, parseVars>>

\* SIsMember "visited".
IsVisitedNever(location) == FALSE

IsVisitedAnswer(location) == location \in visited

\* cache.IsVisited and the three branches on its result.
IsVisited(w) ==
    /\ Running(w)
    /\ pc[w] = "isVisited"
    /\ \/ \* error: the item goes back with one more retry
          /\ CallFails
          /\ faults' = faults + 1
          /\ visitedErr' = TRUE
          /\ curr' = [curr EXCEPT ![w].retries = curr[w].retries + 1]
          /\ pc' = [pc EXCEPT ![w] = "requeue"]
          /\ UNCHANGED <<page, resStatus, resType, blFailed, last, lastLog>>
       \/ /\ ~cancelled
          /\ IsVisitedAnswer(curr[w].location)
          /\ NextPop(w, "visited")
          /\ UNCHANGED <<faults, visitedErr>>
       \/ /\ ~cancelled
          /\ ~IsVisitedAnswer(curr[w].location)
          /\ pc' = [pc EXCEPT ![w] = "visit"]
          /\ UNCHANGED <<faults, visitedErr, curr, page, resStatus, resType, blFailed, last, lastLog>>
    /\ UNCHANGED <<config, frontier, visited, fungicide, stored, seeder, fetches, runVars, idleVars, proxyVars, filterVars, ingressVars, agentVars, seedersVars, sizedVars,
                   parseVars>>

\* The push of the retried item; its error is not looked at.
Requeue(w) ==
    /\ Running(w)
    /\ pc[w] = "requeue"
    /\ \/ /\ CallFails
          /\ faults' = faults + 1
          /\ UNCHANGED frontier
          /\ NextPop(w, "requeueLost")
       \/ /\ ~cancelled
          /\ frontier' = Append(frontier, Marshal(curr[w]))
          /\ UNCHANGED faults
          /\ NextPop(w, "requeued")
    /\ UNCHANGED <<config, visited, fungicide, stored, seeder, visitedErr, fetches, runVars, idleVars, proxyVars, filterVars, ingressVars, agentVars, seedersVars, sizedVars,
                   parseVars>>

\* SAdd "visited".
VisitSetOnly(location) == {location}

VisitSet(location) == visited \cup {location}

\* Crawler.filter: any of the configured filters matches.
filter(location) == Filter(urlFilters, FALSE, Hostname(location))

\* cache.Visit (its error is not looked at), then url.Parse and the filters.
Visit(w) ==
    /\ Running(w)
    /\ pc[w] = "visit"
    /\ \/ /\ CallFails
          /\ faults' = faults + 1
          /\ visitedErr' = TRUE
          /\ UNCHANGED visited
       \/ /\ ~cancelled
          /\ visited' = VisitSet(curr[w].location)
          /\ UNCHANGED <<faults, visitedErr>>
    /\ IF UrlParseFails(curr[w].location)
       THEN NextPop(w, "malformed")
       ELSE IF filter(curr[w].location)
       THEN NextPop(w, "blocked")
       ELSE /\ pc' = [pc EXCEPT ![w] =
                        IF myceliumBlacklistKey # "" THEN "isBlacklisted" ELSE "getPage"]
            /\ UNCHANGED <<curr, page, resStatus, resType, blFailed, last, lastLog>>
    /\ UNCHANGED <<config, frontier, fungicide, stored, seeder, fetches, runVars, idleVars, proxyVars, filterVars, ingressVars, agentVars, seedersVars, sizedVars,
                   parseVars>>

\* SIsMember on the blacklist set, with the host name as the member.
IsBlacklistedAnswer(hostname) == hostname \in blacklist

\* cache.IsBlacklisted: an error is logged and the item goes on.
IsBlacklisted(w) ==
    /\ Running(w)
    /\ pc[w] = "isBlacklisted"
    /\ \/ /\ CallFails
          /\ faults' = faults + 1
          /\ blFailed' = [blFailed EXCEPT ![w] = TRUE]
          /\ pc' = [pc EXCEPT ![w] = "getPage"]
          /\ UNCHANGED <<curr, page, resStatus, resType, last, lastLog>>
       \/ /\ ~cancelled
          /\ IsBlacklistedAnswer(Hostname(curr[w].location))
          /\ NextPop(w, "blacklisted")
          /\ UNCHANGED faults
       \/ /\ ~cancelled
          /\ ~IsBlacklistedAnswer(Hostname(curr[w].location))
          /\ pc' = [pc EXCEPT ![w] = "getPage"]
          /\ UNCHANGED <<faults, curr, page, resStatus, resType, blFailed, last, lastLog>>
    /\ UNCHANGED <<config, frontier, visited, fungicide, stored, seeder, visitedErr, fetches,
                   runVars, idleVars, proxyVars, filterVars, ingressVars, agentVars, seedersVars, sizedVars,
                   parseVars>>

\* "if err != nil { log; continue }" after GetPage.
OnFetchErrorRetry(w) ==
    /\ frontier' = Append(frontier, Marshal(IngressItem(curr[w].location, curr[w].retries + 1)))
    /\ NextPop(w, "fetchFailed")

OnFetchError(w) ==
    /\ UNCHANGED frontier
    /\ NextPop(w, "fetchFailed")

\* "if c.fungicideQueueKey != \"\"": the page goes to the handoff queue.
HandoffConfiguredNever == FALSE

HandoffConfigured == fungicideQueueKey # ""

\* client.Do asks the transport's Proxy function for the proxy of the
\* request: the first half of ProxyChooser.Pick, the read of the index.
PickRead(w) ==
    /\ Running(w)
    /\ pc[w] = "getPage"
    /\ ~cancelled
    /\ options # <<>>
    /\ picked[w] = -1
    /\ picked' = [picked EXCEPT ![w] = index]
    /\ UNCHANGED <<options, index, indexWriters, picks>>
    /\ UNCHANGED <<config, frontier, visited, fungicide, stored, seeder, pc, curr, page,
                   resStatus, resType, blFailed, faults, visitedErr, fetches, last, lastLog, runVars, idleVars,
                   filterVars, ingressVars, agentVars, seedersVars, sizedVars, parseVars>>

\* The request carries the context (http.NewRequestWithContext): once that
\* is cancelled client.Do fails and no request goes out.
RequestGoesOutAlways == TRUE

RequestGoesOut == ~cancelled

\* The user agent sent when no chooser is configured.
defaultUserAgent == "default"

UserAgentDefault(chooser, agent) == defaultUserAgent

\* "userAgent := defaultUserAgent; if r.userAgentChooser != nil { userAgent =
\* r.userAgentChooser.Pick() }": the value set as the User-Agent header.
UserAgent(chooser, agent) == IF chooser = <<>> THEN defaultUserAgent ELSE agent

\* GetPage: one GET; a transport error or a content type that is not text
\* is an error, an HTML body is parsed, another text body is left unparsed.
GetPage(w) ==
    /\ Running(w)
    /\ pc[w] = "getPage"
    /\ options = <<>> \/ picked[w] # -1 \/ cancelled
    /\ fetches' = IF RequestGoesOut
                  THEN [fetches EXCEPT ![curr[w].location] = Min(@ + 1, FetchCap)]
                  ELSE fetches
    /\ \E outcome \in (IF RequestGoesOut THEN Outcomes ELSE {"error"}), status \in Statuses :
          IF outcome = "error" \/ ~IsText(outcome)
          THEN OnFetchError(w)
          ELSE /\ \E links \in (IF IsHtml(outcome) THEN ServedLinks(curr[w].location) ELSE {<<>>}) :
                    page' = [page EXCEPT ![w] = links]
               /\ resStatus' = [resStatus EXCEPT ![w] = status]
               /\ resType' = [resType EXCEPT ![w] = outcome]
               /\ pc' = [pc EXCEPT ![w] =
                           IF HandoffConfigured THEN "pushToFungicide" ELSE "store"]
               /\ UNCHANGED <<frontier, curr, blFailed, last, lastLog>>
    /\ IF picked[w] # -1
       THEN \* the Pick under way writes the index back
            /\ index' = PickNext(options, picked[w])
            /\ picked' = [picked EXCEPT ![w] = -1]
            /\ indexWriters' = indexWriters \cup {w}
            /\ UNCHANGED <<options, picks>>
       ELSE UNCHANGED proxyVars
    /\ \E agent \in (IF userAgents = <<>> THEN {""} ELSE {userAgents[i] : i \in 1..Len(userAgents)}) :
          /\ uaPicked' = (IF userAgents = <<>> THEN uaPicked ELSE agent)
          /\ lastAgent' = UserAgent(userAgents, agent)
    /\ uaPicks' = (IF userAgents = <<>> THEN uaPicks ELSE uaPicks + 1)
    /\ UNCHANGED <<config, visited, fungicide, stored, seeder, faults, visitedErr, runVars,
                   idleVars, filterVars, ingressVars, userAgents, seedersVars, sizedVars, parseVars>>

\* Page.Marshal: the fields of the page that the model keeps.
PageJSON(location, links) == [location |-> location, links |-> links]

\* "failed to push page to fungicide": logged, next turn.
OnHandoffErrorReturn(w) ==
    /\ pc' = [pc EXCEPT ![w] = "returned"]
    /\ UNCHANGED <<curr, page, resStatus, resType, blFailed>>
    /\ last' = "handoffFailed"
    /\ lastLog' = LogLine("handoffFailed", curr[w].location)

OnHandoffError(w) == NextPop(w, "handoffFailed")

\* PushToFungicide.
PushToFungicide(w) ==
    /\ Running(w)
    /\ pc[w] = "pushToFungicide"
    /\ \/ /\ CallFails
          /\ faults' = faults + 1
          /\ UNCHANGED fungicide
          /\ OnHandoffError(w)
       \/ /\ ~cancelled
          /\ fungicide' = Append(fungicide, PageJSON(curr[w].location, page[w]))
          /\ UNCHANGED faults
          /\ NextPop(w, "sent")
    /\ UNCHANGED <<config, frontier, visited, stored, seeder, visitedErr, fetches, runVars, idleVars, proxyVars, filterVars, ingressVars, agentVars, seedersVars, sizedVars,
                   parseVars>>

\* store.Store: an error is logged and the links are queued all the same.
Store(w) ==
    /\ Running(w)
    /\ pc[w] = "store"
    /\ \/ /\ CanFail
          /\ faults' = faults + 1
          /\ UNCHANGED stored
       \/ /\ stored' = Append(stored, curr[w].location)
          /\ UNCHANGED faults
    /\ IF page[w] = <<>>
       THEN NextPop(w, "stored")
       ELSE /\ pc' = [pc EXCEPT ![w] = "pushLinks"]
            /\ UNCHANGED <<curr, page, resStatus, resType, blFailed, last, lastLog>>
    /\ UNCHANGED <<config, frontier, visited, fungicide, seeder, visitedErr, fetches, runVars, idleVars, proxyVars, filterVars, ingressVars, agentVars, seedersVars, sizedVars,
                   parseVars>>

\* One turn of the loop over page.Links: push the neighbour with retries 0;
\* the error of the push is not looked at.
PushLink(w) ==
    /\ Running(w)
    /\ pc[w] = "pushLinks"
    /\ \/ /\ CallFails
          /\ faults' = faults + 1
          /\ UNCHANGED frontier
       \/ /\ ~cancelled
          /\ frontier' = Append(frontier, Marshal(IngressItem(Head(page[w]), 0)))
          /\ UNCHANGED faults
    /\ IF Tail(page[w]) = <<>>
       THEN NextPop(w, "stored")
       ELSE /\ page' = [page EXCEPT ![w] = Tail(page[w])]
            /\ UNCHANGED <<pc, curr, resStatus, resType, blFailed, last, lastLog>>
    /\ UNCHANGED <<config, visited, fungicide, stored, seeder, visitedErr, fetches, runVars, idleVars, proxyVars, filterVars, ingressVars, agentVars, seedersVars, sizedVars,
                   parseVars>>

\* The caller cancels the context it gave to Crawl.
Cancel ==
    /\ started
    /\ ~cancelled
    /\ cancelled' = TRUE
    /\ UNCHANGED <<config, frontier, visited, fungicide, stored, seeder, pc, curr, page,
                   resStatus, resType, blFailed, faults, visitedErr, fetches, last, lastLog, ret,
                   idleVars, proxyVars, filterVars, ingressVars, agentVars, seedersVars, sizedVars, parseVars>>

Next ==
    \/ SeedCall
    \/ SeedSize
    \/ SeedPush
    \/ StartCrawl
    \/ Cancel
    \/ \E w \in Workers :
          \/ PopFromMyceliumIngress(w)
          \/ IsVisited(w)
          \/ Requeue(w)
          \/ Visit(w)
          \/ IsBlacklisted(w)
          \/ GetPage(w)
          \/ PushToFungicide(w)
          \/ Store(w)
          \/ PushLink(w)

Spec == Init /\ [][Next]_vars

\* The steps of goroutine w.
WorkerNext(w) ==
    \/ PopFromMyceliumIngress(w)
    \/ IsVisited(w)
    \/ Requeue(w)
    \/ Visit(w)
    \/ IsBlacklisted(w)
    \/ GetPage(w)
    \/ PushToFungicide(w)
    \/ Store(w)
    \/ PushLink(w)

\* Runs on an empty store, with all the options or none.
InitCancel ==
    /\ Init
    /\ leftover = <<>>
    /\ visited = {}
    /\ urlFilters = {}
    /\ \/ /\ fungicideQueueKey # ""
          /\ myceliumBlacklistKey # ""
          /\ seed = <<LocEvil, LocSub, LocNotEvil>>
       \/ /\ fungicideQueueKey = ""
          /\ myceliumBlacklistKey = ""
          /\ seed = <<LocA, LocA>>

\* Every goroutine that can take a step eventually takes one: the scheduler
\* runs each goroutine, and every store call and every request returns
\* (BLPop has a timeout, the request is bound to the context).
SpecCancel == InitCancel /\ [][Next]_vars /\ \A w \in Workers : WF_vars(WorkerNext(w))

(***************************************************************************)
(* The batch loop: the earlier Crawl with the idle policy, on the cache    *)
(* whose QueuePop is an LPop.  It has no handoff queue and no shared       *)
(* blacklist; the rest of an iteration is as in the service loop.          *)
(***************************************************************************)
\* Largest idle ceiling (flag -maxIdleSeconds) of the model.
MaxIdle == 1

\* CrawlerCache.QueuePop: LPop answers redis.Nil on the empty list, which is
\* an error like any other; an item that does not decode is an error too;
\* otherwise the item is returned.  No answer is (nil, nil).
QueuePopAnswer(queue) ==
    IF queue = <<>>
    THEN [err |-> TRUE, isNil |-> TRUE, item |-> NoItem]
    ELSE IF UnmarshalFails(Head(queue))
    THEN [err |-> TRUE, isNil |-> TRUE, item |-> NoItem]
    ELSE [err |-> FALSE, isNil |-> FALSE, item |-> Unmarshal(Head(queue))]

\* QueuePop and what Crawl does with its answer: "return err"; the idle
\* loop "for curr == nil"; the retry ceiling.
QueuePop(w) ==
    /\ Running(w)
    /\ pc[w] = "pop"
    /\ \/ \* the store is unreachable
          /\ CallFails
          /\ faults' = faults + 1
          /\ Return(w, "error")
          /\ last' = "popFailed"
          /\ lastLog' = NoLog
          /\ UNCHANGED <<frontier, idleSeconds, curr, page, resStatus, resType, blFailed>>
       \/ /\ ~cancelled
          /\ UNCHANGED faults
          /\ frontier' = IF frontier = <<>> THEN frontier ELSE Tail(frontier)
          /\ LET answer == QueuePopAnswer(frontier) IN
             IF answer.err
             THEN /\ Return(w, "error")
                  /\ last' = "popError"
                  /\ lastLog' = NoLog
                  /\ UNCHANGED <<idleSeconds, curr, page, resStatus, resType, blFailed>>
             ELSE IF answer.isNil
             THEN IF idleSeconds > maxIdleSeconds
                  THEN /\ Return(w, "nil")
                       /\ last' = "idleExit"
                       /\ lastLog' = NoLog
                       /\ UNCHANGED <<idleSeconds, curr, page, resStatus, resType, blFailed>>
                  ELSE /\ idleSeconds' = idleSeconds + 1
                       /\ last' = "idle"
                       /\ lastLog' = NoLog
                       /\ UNCHANGED <<pc, ret, curr, page, resStatus, resType, blFailed>>
             ELSE /\ UNCHANGED <<idleSeconds, ret>>
                  /\ IF OverRetried(answer.item)
                     THEN NextPop(w, "overRetried")
                     ELSE /\ pc' = [pc EXCEPT ![w] = "isVisited"]
                          /\ curr' = [curr EXCEPT ![w] = answer.item]
                          /\ UNCHANGED <<page, resStatus, resType, blFailed, last, lastLog>>
    /\ UNCHANGED <<config, visited, fungicide, stored, seeder, visitedErr, fetches, cancelled,
                   maxIdleSeconds, proxyVars, filterVars, ingressVars, agentVars, seedersVars, sizedVars, parseVars>>

\* The batch application: any number of goroutines on the one Crawler
\* value, with or without a proxy chooser, on an empty store.
InitBatch ==
    /\ numCrawlers \in 1..NumWorkers
    /\ fungicideQueueKey = ""
    /\ myceliumBlacklistKey = ""
    /\ urlFilters = {}
    /\ seed \in {<<>>, <<LocA, LocA>>}
    /\ leftover = <<>>
    /\ visited = {}
    /\ faultBudget = Min(1, MaxFaults)
    /\ site = "lists"
    /\ maxIdleSeconds \in 0..MaxIdle
    /\ idleSeconds = 0
    /\ options \in {<<>>} \cup {<<a, b>> : a \in ProxyOptions, b \in ProxyOptions}
    /\ index = 0
    /\ picked = [w \in Workers |-> -1]
    /\ indexWriters = {}
    /\ picks = <<>>
    /\ InitParseIdle
    /\ InitIngressIdle
    /\ InitAgentOff
    /\ InitSeedersOff
    /\ InitSizedOff
    /\ InitEngine

NextBatch ==
    \/ SeedCall
    \/ SeedSize
    \/ SeedPush
    \/ StartCrawl
    \/ \E w \in Workers :
          \/ QueuePop(w)
          \/ IsVisited(w)
          \/ Requeue(w)
          \/ Visit(w)
          \/ PickRead(w)
          \/ GetPage(w)
          \/ Store(w)
          \/ PushLink(w)

SpecBatch == InitBatch /\ [][NextBatch]_vars

(***************************************************************************)
(* Crawler.ConsumeIngressQueue: the goroutine that moves the outlinks an   *)
(* external producer pushes to the mycelium ingress list into the          *)
(* crawler's main queue.                                                   *)
(***************************************************************************)
\* Outlinks pushed to the ingress list in a run of the model.
MaxIngress == 3

\* redis.NewQueueItem: the location is the URL's string, retries is 0.
NewQueueItem(u) == [location |-> UrlString(u), retries |-> 0]

\* The makeQueueItem that the application passes to the crawler.
makeQueueItem(u) == NewQueueItem(u)

\* What a producer pushes: outlinks {location, retries}, and bytes that do
\* not decode.
Outlinks ==
    {Garbage, Marshal(IngressItem(LocBad, 0))}
        \cup {Marshal(IngressItem(l, r)) : l \in {LocA, LocX}, r \in 0..maxRetries}

\* CrawlerCache.PushToMyceliumIngress, called by the producer: RPush.
PushToMyceliumIngress(itemJSON) ==
    /\ produced < MaxIngress
    /\ produced' = produced + 1
    /\ ingress' = Append(ingress, itemJSON)
    /\ UNCHANGED <<mainQueue, consumeRet, consumeLast, crawlerVars, filterVars, parseVars, agentVars, seedersVars, sizedVars>>

\* One iteration of the loop of ConsumeIngressQueue.  A failed pop (an
\* error of the store, or the timeout of the BLPop on the empty list)
\* returns the error; a payload or a location that does not parse is
\* logged and dropped; otherwise makeQueueItem(parsedUrl) is pushed to the
\* main queue, and a failed push is logged and the outlink is lost.
ConsumeIngressQueue ==
    /\ consumeRet = "running"
    /\ \/ /\ consumeRet' = "error"
          /\ consumeLast' = "popFailed"
          /\ UNCHANGED <<ingress, mainQueue>>
       \/ /\ ingress # <<>>
          /\ ingress' = Tail(ingress)
          /\ UNCHANGED consumeRet
          /\ LET incomingJSON == Head(ingress) IN
             IF UnmarshalFails(incomingJSON)
             THEN /\ consumeLast' = "badJson"
                  /\ UNCHANGED mainQueue
             ELSE LET outlink == Unmarshal(incomingJSON)
                      parsed == UrlParse(outlink.location)
                  IN IF parsed.err
                     THEN /\ consumeLast' = "malformed"
                          /\ UNCHANGED mainQueue
                     ELSE \/ /\ mainQueue' = Append(mainQueue, makeQueueItem(parsed.url))
                             /\ consumeLast' = "ingress"
                          \/ /\ consumeLast' = "queueFailed"
                             /\ UNCHANGED mainQueue
    /\ UNCHANGED <<produced, crawlerVars, filterVars, parseVars, agentVars, seedersVars, sizedVars>>

\* The consumer is running on empty lists; the crawl loop is not.
InitIngress ==
    /\ ingress = <<>>
    /\ mainQueue = <<>>
    /\ produced = 0
    /\ consumeRet = "running"
    /\ consumeLast = "none"
    /\ InitProxyOff
    /\ InitParseIdle
    /\ InitNoCrawl

NextIngress ==
    \/ \E itemJSON \in Outlinks : PushToMyceliumIngress(itemJSON)
    \/ ConsumeIngressQueue

SpecIngress == InitIngress /\ [][NextIngress]_vars

(***************************************************************************)
(* The service loop in its fallback mode (no handoff queue, no blacklist,  *)
(* no filter) on the example site, started on an empty store.              *)
(***************************************************************************)
InitEndToEnd ==
    /\ numCrawlers \in 1..NumWorkers
    /\ fungicideQueueKey = ""
    /\ myceliumBlacklistKey = ""
    /\ urlFilters = {}
    /\ seed \in {<<LocA>>, <<LocA, LocX>>}
    /\ leftover = <<>>
    /\ visited = {}
    /\ faultBudget = Min(1, MaxFaults)
    /\ site = "example"
    /\ InitIdleOff
    /\ InitProxyOff
    /\ InitParseIdle
    /\ InitIngressIdle
    /\ InitAgentOff
    /\ InitSeedersOff
    /\ InitSizedOff
    /\ InitEngine

NextEndToEnd ==
    \/ SeedCall
    \/ SeedSize
    \/ SeedPush
    \/ StartCrawl
    \/ \E w \in Workers :
          \/ PopFromMyceliumIngress(w)
          \/ IsVisited(w)
          \/ Requeue(w)
          \/ Visit(w)
          \/ GetPage(w)
          \/ Store(w)
          \/ PushLink(w)

SpecEndToEnd == InitEndToEnd /\ [][NextEndToEnd]_vars

(***************************************************************************)
(* The service loop in its fallback mode on the example site, with a store *)
(* that can fail on every query of the visited set.                        *)
(***************************************************************************)
InitRetry ==
    /\ numCrawlers \in 1..NumWorkers
    /\ fungicideQueueKey = ""
    /\ myceliumBlacklistKey = ""
    /\ urlFilters = {}
    /\ seed \in {<<LocX>>, <<LocA, LocX>>}
    /\ leftover = <<>>
    /\ visited = {}
    /\ faultBudget = Len(seed) * (maxRetries + 1)
    /\ site = "example"
    /\ InitIdleOff
    /\ InitProxyOff
    /\ InitParseIdle
    /\ InitIngressIdle
    /\ InitAgentOff
    /\ InitSeedersOff
    /\ InitSizedOff
    /\ InitEngine

\* The scheduler runs every goroutine, and every store call and every
\* request returns.
SpecRetry == InitRetry /\ [][NextEndToEnd]_vars /\ \A w \in Workers : WF_vars(WorkerNext(w))

(***************************************************************************)
(* The service loop of one goroutine with or without a user-agent chooser, *)
(* over every combination of the other options.                            *)
(***************************************************************************)
\* The options of the user-agent file.
UserAgentOptions == {<<>>, <<"ua1", "ua2">>}

InitAgent ==
    /\ numCrawlers = 1
    /\ fungicideQueueKey \in {"", "fungicide"}
    /\ myceliumBlacklistKey \in {"", "blacklist"}
    /\ urlFilters \in {NewDomainFilter(d) : d \in FilterDomainLists}
    /\ leftover \in Leftovers
    /\ seed \in (IF leftover = <<>> THEN SeedLists ELSE {<<LocA, LocA>>})
    /\ visited \in VisitedAtStart
    /\ faultBudget = Min(1, MaxFaults)
    /\ site = "lists"
    /\ userAgents \in UserAgentOptions
    /\ uaPicks = 0
    /\ uaPicked = ""
    /\ lastAgent = ""
    /\ InitSeedersOff
    /\ InitSizedOff
    /\ InitIdleOff
    /\ InitProxyOff
    /\ InitParseIdle
    /\ InitIngressIdle
    /\ InitEngine

SpecAgent == InitAgent /\ [][Next]_vars

(***************************************************************************)
(* Several engine instances, each calling Seed with the same list on the   *)
(* one store, before any of them crawls.                                   *)
(***************************************************************************)
\* An instance calls Seed.
InstSeedCall(i) ==
    /\ instPc[i] = "init"
    /\ instPc' = [instPc EXCEPT ![i] = "size"]
    /\ UNCHANGED <<instIdx, crawlerVars, filterVars, parseVars, ingressVars, agentVars, sizedVars>>

\* IngressQueueSize and the size test of instance i.
InstSeedSize(i) ==
    /\ instPc[i] = "size"
    /\ \/ /\ CanFail
          /\ faults' = faults + 1
          /\ instPc' = [instPc EXCEPT ![i] = "err"]
          /\ UNCHANGED instIdx
       \/ /\ UNCHANGED faults
          /\ IF SeedSkips(Len(frontier)) \/ Len(seed) = 0
             THEN /\ instPc' = [instPc EXCEPT ![i] = "nil"]
                  /\ UNCHANGED instIdx
             ELSE /\ instPc' = [instPc EXCEPT ![i] = "push"]
                  /\ instIdx' = [instIdx EXCEPT ![i] = 1]
    /\ UNCHANGED <<config, frontier, visited, fungicide, stored, seeder, pc, curr, page, resStatus,
                   resType, blFailed, visitedErr, fetches, last, lastLog, runVars, idleVars,
                   proxyVars, filterVars, ingressVars, agentVars, sizedVars, parseVars>>

\* One turn of the loop over the seed list of instance i.
InstSeedPush(i) ==
    /\ instPc[i] = "push"
    /\ \/ /\ CanFail
          /\ faults' = faults + 1
          /\ instPc' = [instPc EXCEPT ![i] = "err"]
          /\ UNCHANGED <<frontier, instIdx>>
       \/ /\ UNCHANGED faults
          /\ frontier' = Append(frontier, Marshal(IngressItem(seed[instIdx[i]], 0)))
          /\ IF instIdx[i] = Len(seed)
             THEN /\ instPc' = [instPc EXCEPT ![i] = "nil"]
                  /\ UNCHANGED instIdx
             ELSE /\ instPc' = [instPc EXCEPT ![i] = "push"]
                  /\ instIdx' = [instIdx EXCEPT ![i] = instIdx[i] + 1]
    /\ UNCHANGED <<config, visited, fungicide, stored, seeder, pc, curr, page, resStatus,
                   resType, blFailed, visitedErr, fetches, last, lastLog, runVars, idleVars,
                   proxyVars, filterVars, ingressVars, agentVars, sizedVars, parseVars>>

\* The instances start on an empty store with the same seed list.
InitSeeders ==
    /\ numCrawlers = 1
    /\ fungicideQueueKey = ""
    /\ myceliumBlacklistKey = ""
    /\ urlFilters = {}
    /\ seed \in {<<LocA>>, <<LocA, LocX>>, <<LocA, LocX, LocSub>>}
    /\ leftover = <<>>
    /\ visited = {}
    /\ faultBudget \in 0..Min(1, MaxFaults)
    /\ site = "lists"
    /\ instPc = [i \in Instances |-> "init"]
    /\ instIdx = [i \in Instances |-> 0]
    /\ InitIdleOff
    /\ InitProxyOff
    /\ InitParseIdle
    /\ InitIngressIdle
    /\ InitAgentOff
    /\ InitSizedOff
    /\ InitEngine

NextSeeders ==
    \E i \in Instances :
       \/ InstSeedCall(i)
       \/ InstSeedSize(i)
       \/ InstSeedPush(i)

SpecSeeders == InitSeeders /\ [][NextSeeders]_vars

(***************************************************************************)
(* The size-driven Crawl: the first version of the loop, "for size > 0",   *)
(* run by one goroutine on the RedisQueue whose Pop is an LPop.            *)
(***************************************************************************)
\* "for _, item := range seed { c.queue.Enqueue(ctx, item) }": one turn; the
\* error of the Enqueue is not looked at.
SizedEnqueue ==
    /\ ~started
    /\ seedPc = "init"
    /\ seedIdx < Len(seed)
    /\ seedIdx' = seedIdx + 1
    /\ \/ /\ CanFail
          /\ faults' = faults + 1
          /\ UNCHANGED frontier
       \/ /\ frontier' = Append(frontier, Marshal(IngressItem(seed[seedIdx + 1], 0)))
          /\ UNCHANGED faults
    /\ UNCHANGED <<config, visited, fungicide, stored, seedPc, seedCalls, started, pc, curr, page,
                   resStatus, resType, blFailed, visitedErr, fetches, last, lastLog, runVars,
                   idleVars, proxyVars, filterVars, ingressVars, agentVars, seedersVars,
                   sizedVars, parseVars>>

\* "size, err := c.queue.Size(ctx)" before the loop.
SizedFirstSize ==
    /\ ~started
    /\ seedPc = "init"
    /\ seedIdx = Len(seed)
    /\ started' = TRUE
    /\ \/ /\ CanFail
          /\ faults' = faults + 1
          /\ seedPc' = "err"
          /\ Return(1, "error")
          /\ UNCHANGED crawlSize
       \/ /\ UNCHANGED <<faults, pc, ret>>
          /\ seedPc' = "nil"
          /\ crawlSize' = Len(frontier)
    /\ UNCHANGED <<config, frontier, visited, fungicide, stored, seedIdx, seedCalls, curr, page,
                   resStatus, resType, blFailed, visitedErr, fetches, last, lastLog, cancelled,
                   idleVars, proxyVars, filterVars, ingressVars, agentVars, seedersVars,
                   parseVars>>

\* The loop test "size > 0", RedisQueue.Pop and the retry ceiling.
SizedPop(w) ==
    /\ Running(w)
    /\ pc[w] = "pop"
    /\ IF crawlSize > 0
       THEN \/ \* the store is unreachable
               /\ CanFail
               /\ faults' = faults + 1
               /\ Return(w, "error")
               /\ last' = "popFailed"
               /\ lastLog' = NoLog
               /\ UNCHANGED <<frontier, curr, page, resStatus, resType, blFailed>>
            \/ /\ UNCHANGED faults
               /\ frontier' = IF frontier = <<>> THEN frontier ELSE Tail(frontier)
               /\ LET answer == QueuePopAnswer(frontier) IN
                  IF answer.err
                  THEN /\ Return(w, "error")
                       /\ last' = "popError"
                       /\ lastLog' = NoLog
                       /\ UNCHANGED <<curr, page, resStatus, resType, blFailed>>
                  ELSE /\ UNCHANGED ret
                       /\ IF OverRetried(answer.item)
                          THEN NextPop(w, "overRetried")
                          ELSE /\ pc' = [pc EXCEPT ![w] = "isVisited"]
                               /\ curr' = [curr EXCEPT ![w] = answer.item]
                               /\ UNCHANGED <<page, resStatus, resType, blFailed, last, lastLog>>
       ELSE /\ Return(w, "nil")
            /\ last' = "done"
            /\ lastLog' = NoLog
            /\ UNCHANGED <<frontier, faults, curr, page, resStatus, resType, blFailed>>
    /\ UNCHANGED <<config, visited, fungicide, stored, seeder, visitedErr, fetches, cancelled,
                   idleVars, proxyVars, filterVars, ingressVars, agentVars, seedersVars,
                   sizedVars, parseVars>>

\* "c.visited.Visit(ctx, curr)": its error is not looked at.
SizedVisit(w) ==
    /\ Running(w)
    /\ pc[w] = "visit"
    /\ \/ /\ CanFail
          /\ faults' = faults + 1
          /\ visitedErr' = TRUE
          /\ UNCHANGED visited
       \/ /\ visited' = VisitSet(curr[w].location)
          /\ UNCHANGED <<faults, visitedErr>>
    /\ pc' = [pc EXCEPT ![w] = "size"]
    /\ UNCHANGED <<config, frontier, fungicide, stored, seeder, curr, page, resStatus, resType,
                   blFailed, fetches, last, lastLog, runVars, idleVars, proxyVars, filterVars,
                   ingressVars, agentVars, seedersVars, sizedVars, parseVars>>

\* "size, err = c.queue.Size(ctx)" inside the loop, then url.Parse.
SizedSize(w) ==
    /\ Running(w)
    /\ pc[w] = "size"
    /\ \/ /\ CanFail
          /\ faults' = faults + 1
          /\ Return(w, "error")
          /\ last' = "sizeFailed"
          /\ lastLog' = NoLog
          /\ UNCHANGED <<crawlSize, curr, page, resStatus, resType, blFailed>>
       \/ /\ UNCHANGED <<faults, ret>>
          /\ crawlSize' = Len(frontier)
          /\ IF UrlParseFails(curr[w].location)
             THEN NextPop(w, "malformed")
             ELSE /\ pc' = [pc EXCEPT ![w] = "getPage"]
                  /\ UNCHANGED <<curr, page, resStatus, resType, blFailed, last, lastLog>>
    /\ UNCHANGED <<config, frontier, visited, fungicide, stored, seeder, visitedErr, fetches,
                   cancelled, idleVars, proxyVars, filterVars, ingressVars, agentVars,
                   seedersVars, parseVars>>

\* GetPage of this version, then "for _, neighbor := range page.Links": the
\* page is not stored.
SizedGetPage(w) ==
    /\ Running(w)
    /\ pc[w] = "getPage"
    /\ fetches' = [fetches EXCEPT ![curr[w].location] = Min(@ + 1, FetchCap)]
    /\ lastAgent' = UserAgent(userAgents, "")
    /\ \E outcome \in Outcomes :
          IF outcome = "error" \/ ~IsText(outcome)
          THEN NextPop(w, "fetchFailed")
          ELSE \E links \in (IF IsHtml(outcome) THEN ServedLinks(curr[w].location) ELSE {<<>>}) :
                  IF links = <<>>
                  THEN NextPop(w, "crawled")
                  ELSE /\ page' = [page EXCEPT ![w] = links]
                       /\ resType' = [resType EXCEPT ![w] = outcome]
                       /\ pc' = [pc EXCEPT ![w] = "pushLinks"]
                       /\ UNCHANGED <<curr, resStatus, blFailed, last, lastLog>>
    /\ UNCHANGED <<config, frontier, visited, fungicide, stored, seeder, faults, visitedErr,
                   runVars, idleVars, proxyVars, filterVars, ingressVars, userAgents, uaPicks,
                   uaPicked, seedersVars, sizedVars, parseVars>>

\* One goroutine, no chooser, seeds with a duplicate, and a store that holds
\* nothing or one over-retried item at startup.
InitSized ==
    /\ numCrawlers = 1
    /\ fungicideQueueKey = ""
    /\ myceliumBlacklistKey = ""
    /\ urlFilters = {}
    /\ seed \in {<<>>, <<LocX>>, <<LocA, LocA>>, <<LocA, LocBad>>}
    /\ leftover \in {<<>>, <<Marshal(IngressItem(LocX, maxRetries + 1))>>}
    /\ visited \in VisitedAtStart
    /\ faultBudget \in 0..Min(1, MaxFaults)
    /\ site = "lists"
    /\ crawlSize = 0
    /\ InitIdleOff
    /\ InitProxyOff
    /\ InitParseIdle
    /\ InitIngressIdle
    /\ InitAgentOff
    /\ InitSeedersOff
    /\ InitEngine

NextSized ==
    \/ SizedEnqueue
    \/ SizedFirstSize
    \/ \E w \in Workers :
          \/ SizedPop(w)
          \/ IsVisited(w)
          \/ Requeue(w)
          \/ SizedVisit(w)
          \/ SizedSize(w)
          \/ SizedGetPage(w)
          \/ PushLink(w)

SpecSized == InitSized /\ [][NextSized]_vars

(***************************************************************************)
(* ProxyChooser on its own: a chooser built over a fixed list and picked   *)
(* from by one caller, one call after the other.                           *)
(***************************************************************************)
\* Longest option list, and number of calls of Pick, of the model.
MaxOptions == 3
MaxPicks == 6

\* NewProxyChooser(options) for every non-empty list.
InitChooser ==
    /\ options \in UNION {[1..n -> ProxyOptions] : n \in 1..MaxOptions}
    /\ index = 0
    /\ picked = [w \in Workers |-> -1]
    /\ indexWriters = {}
    /\ picks = <<>>
    /\ InitParseIdle
    /\ InitIngressIdle
    /\ InitNoCrawl

\* One whole call of Pick; picks records what the calls returned.
Pick ==
    /\ Len(picks) < MaxPicks
    /\ picks' = Append(picks, String(PickChoice(options, index)))
    /\ index' = PickNext(options, index)
    /\ UNCHANGED <<options, picked, indexWriters>>
    /\ UNCHANGED <<runVars, idleVars, config, frontier, visited, fungicide, stored, seeder, pc, curr,
                   page, resStatus, resType, blFailed, faults, visitedErr, fetches, last, lastLog, filterVars, ingressVars, agentVars, seedersVars, sizedVars, parseVars>>

NextChooser == Pick

SpecChooser == InitChooser /\ [][NextChooser]_vars

(***************************************************************************)
(* The one ProxyChooser picked from by several goroutines at once: the     *)
(* transports of the shared http.Client call Pick without a lock.          *)
(***************************************************************************)
\* "choice := pc.options[pc.index]": goroutine w reads the index.
PickLoad(w) ==
    /\ picked[w] = -1
    /\ Len(picks) + Cardinality({v \in Workers : picked[v] # -1}) < MaxPicks
    /\ picked' = [picked EXCEPT ![w] = index]
    /\ UNCHANGED <<options, index, indexWriters, picks>>
    /\ UNCHANGED <<runVars, idleVars, config, frontier, visited, fungicide, stored, seeder, pc, curr,
                   page, resStatus, resType, blFailed, faults, visitedErr, fetches, last, lastLog,
                   filterVars, ingressVars, agentVars, seedersVars, sizedVars, parseVars>>

\* "pc.index = (pc.index + 1) % len(pc.options); return choice.String()":
\* the index read again here is, in a racing call, the one read for the
\* choice or the one another goroutine has written since.
PickStore(w) ==
    /\ picked[w] # -1
    /\ \E seen \in {picked[w], index} : index' = PickNext(options, seen)
    /\ picks' = Append(picks, String(PickChoice(options, picked[w])))
    /\ picked' = [picked EXCEPT ![w] = -1]
    /\ indexWriters' = indexWriters \cup {w}
    /\ UNCHANGED options
    /\ UNCHANGED <<runVars, idleVars, config, frontier, visited, fungicide, stored, seeder, pc, curr,
                   page, resStatus, resType, blFailed, faults, visitedErr, fetches, last, lastLog,
                   filterVars, ingressVars, agentVars, seedersVars, sizedVars, parseVars>>

NextSharedChooser == \E w \in Workers : PickLoad(w) \/ PickStore(w)

SpecSharedChooser == InitChooser /\ [][NextSharedChooser]_vars

(***************************************************************************)
(* Page.ParseHtmlPage and Page.NormalizePageURL on their own.  The         *)
(* documents are the two fixed documents, the documents of up to MaxTokens *)
(* link-bearing tags and the documents of up to MaxTexts tokens of         *)
(* text-bearing elements; a page that is given no document is given        *)
(* references to normalize.                                                *)
(***************************************************************************)
\* NewPage at an absolute location.
InitParse ==
    /\ pLocation \in {LocA, LocX}
    /\ pDoc \in {"example", "closed", "links", "text", "refs"}
    /\ pTokens = 0
    /\ pTag = ""
    /\ pPrev = ""
    /\ pTitle = ""
    /\ pDescription = ""
    /\ pAuthor = ""
    /\ pKeywords = <<>>
    /\ pHeadings = <<>>
    /\ pContent = <<>>
    /\ pLinks = <<>>
    /\ pScriptLinks = <<>>
    /\ pScriptContent = <<>>
    /\ pErrors = 0
    /\ pRef = ""
    /\ pOut = [err |-> FALSE, url |-> NoURL]
    /\ pVersion \in {"earlier", "current"}
    /\ pFault = FALSE
    /\ InitProxyOff
    /\ InitIngressIdle
    /\ InitNoCrawl

\* The Page value that the variables hold.
PageNow ==
    [Title |-> pTitle, Description |-> pDescription, Author |-> pAuthor, Keywords |-> pKeywords,
     Headings |-> pHeadings, Content |-> pContent, Links |-> pLinks,
     ScriptLinks |-> pScriptLinks, ScriptContent |-> pScriptContent, Location |-> pLocation]

\* The tokens that tokenizer.Next() can return next; a text is not followed
\* by another text.
NextTokens ==
    CASE pDoc = "example" -> IF pTokens < Len(ExampleHtml) THEN {ExampleHtml[pTokens + 1]} ELSE {}
      [] pDoc = "closed" -> IF pTokens < Len(ClosedHtml) THEN {ClosedHtml[pTokens + 1]} ELSE {}
      [] pDoc = "links" -> IF pTokens < MaxTokens THEN LinkTokens ELSE {}
      [] pDoc = "text" -> IF pTokens < MaxTexts
                          THEN {t \in TextTokens : pPrev = "Text" => t.Type # "Text"}
                          ELSE {}
      [] OTHER -> {}

\* One iteration of the loop of ParseHtmlPage.  Where the earlier version
\* does not panic it leaves the page as the current one does: the two
\* differ only on the references that fail to normalize.
TokenizerNext ==
    /\ ~pFault
    /\ \E t \in NextTokens :
          IF pVersion = "earlier" /\ PanicsEarlier(pLocation, t)
          THEN /\ pFault' = TRUE
               /\ pErrors' = pErrors + 1
               /\ pTag' = TagAfter(pTag, t)
               /\ pPrev' = t.Type
               /\ UNCHANGED <<pTitle, pDescription, pAuthor, pKeywords, pHeadings, pContent,
                              pLinks, pScriptLinks, pScriptContent>>
          ELSE LET q == ParseToken(PageNow, pTag, t) IN
               /\ pTitle' = q.Title
               /\ pDescription' = q.Description
               /\ pAuthor' = q.Author
               /\ pKeywords' = q.Keywords
               /\ pHeadings' = q.Headings
               /\ pContent' = q.Content
               /\ pLinks' = q.Links
               /\ pScriptLinks' = q.ScriptLinks
               /\ pScriptContent' = q.ScriptContent
               /\ pTag' = TagAfter(pTag, t)
               /\ pPrev' = t.Type
               /\ pErrors' = pErrors
                               + (IF t.Type = "StartTag" /\ t.DataAtom = "a"
                                  THEN AttrErrors(pLocation, t.Attr, "href") ELSE 0)
                               + (IF t.Type = "StartTag" /\ t.DataAtom = "script"
                                  THEN AttrErrors(pLocation, t.Attr, "src") ELSE 0)
               /\ UNCHANGED pFault
    /\ pTokens' = pTokens + 1
    /\ UNCHANGED <<pLocation, pDoc, pRef, pOut, pVersion, crawlerVars, filterVars, ingressVars, agentVars, seedersVars, sizedVars>>

\* A call of NormalizePageURL on the page.
NormalizeCall ==
    /\ pDoc = "refs"
    /\ \E ref \in Refs :
          /\ pRef' = ref
          /\ pOut' = IF pVersion = "earlier" THEN NormalizePageURLEarlier(pLocation, ref)
                      ELSE NormalizePageURL(pLocation, ref)
    /\ UNCHANGED <<pLocation, pDoc, pTokens, pTag, pPrev, pTitle, pDescription, pAuthor, pKeywords,
                   pHeadings, pContent, pLinks, pScriptLinks, pScriptContent, pErrors,
                   pVersion, pFault, crawlerVars, filterVars, ingressVars, agentVars, seedersVars, sizedVars>>

NextParse == TokenizerNext \/ NormalizeCall

SpecParse == InitParse /\ [][NextParse]_vars

(***************************************************************************)
(* DomainFilter.Filter on its own: a filter is built from a list of        *)
(* entries and asked about one URL after another.                          *)
(***************************************************************************)
\* The entries a blacklist file can hold, and the host names asked about:
\* every sequence of at most MaxLabels labels.
FilterEntries == {<<"EVIL", "com">>, <<"localhost">>, <<"sub", "evil", "com">>}

Hosts == UNION {[1..n -> Labels] : n \in 0..MaxLabels}

InitFilter ==
    /\ numCrawlers = 1
    /\ fungicideQueueKey = ""
    /\ myceliumBlacklistKey = ""
    /\ urlFilters = {}
    /\ seed = <<>>
    /\ leftover = <<>>
    /\ faultBudget = 0
    /\ site = "lists"
    /\ blacklist = {}
    /\ frontier = <<>>
    /\ visited = {}
    /\ fungicide = <<>>
    /\ stored = <<>>
    /\ seedPc = "init"
    /\ seedIdx = 0
    /\ seedCalls = 0
    /\ started = FALSE
    /\ pc = [w \in Workers |-> "pop"]
    /\ curr = [w \in Workers |-> NoItem]
    /\ page = [w \in Workers |-> <<>>]
    /\ resStatus = [w \in Workers |-> 0]
    /\ resType = [w \in Workers |-> "none"]
    /\ cancelled = FALSE
    /\ ret = [w \in Workers |-> "running"]
    /\ blFailed = [w \in Workers |-> FALSE]
    /\ faults = 0
    /\ visitedErr = FALSE
    /\ fetches = [l \in Locations |-> 0]
    /\ last = "none"
    /\ lastLog = NoLog
    /\ InitIdleOff
    /\ InitProxyOff
    /\ InitParseIdle
    /\ InitIngressIdle
    /\ InitAgentOff
    /\ InitSeedersOff
    /\ InitSizedOff
    /\ fDomains \in {NewDomainFilter(d) : d \in SUBSET FilterEntries}
    /\ fNil \in BOOLEAN
    /\ fHost \in Hosts
    /\ fOut = FALSE
    /\ fPc = "call"

\* Filter is called on the URL.
FilterCall ==
    /\ fPc = "call"
    /\ fOut' = Filter(fDomains, fNil, fHost)
    /\ fPc' = "done"
    /\ UNCHANGED <<crawlerVars, parseVars, ingressVars, agentVars, seedersVars, sizedVars, fDomains, fNil, fHost>>

\* The caller comes with the next URL.
FilterAgain ==
    /\ fPc = "done"
    /\ fNil' \in BOOLEAN
    /\ fHost' \in Hosts
    /\ fPc' = "call"
    /\ UNCHANGED <<crawlerVars, parseVars, ingressVars, agentVars, seedersVars, sizedVars, fDomains, fOut>>

NextFilter == FilterCall \/ FilterAgain

SpecFilter == InitFilter /\ [][NextFilter]_vars

(***************************************************************************)
(* Properties.                                                             *)
(***************************************************************************)
\* The step pops the head of the ingress list.
PopStep == Len(frontier') < Len(frontier)

\* The step is one of goroutine w.
StepOf(w) == pc'[w] # pc[w] \/ curr'[w] # curr[w] \/ page'[w] # page[w]

\* C1: an item popped with retries > maxRetries is dropped at once: the pop
\* is the only store call made for it (no visited check, no mark, no fetch,
\* no handoff, no store, no push), and no goroutine is ever past the pop with
\* an item that was over the ceiling when it was popped.
C1_OverRetriedDropped ==
    [][ /\ (/\ PopStep
            /\ ~UnmarshalFails(Head(frontier))
            /\ Unmarshal(Head(frontier)).retries > maxRetries)
           => /\ frontier' = Tail(frontier)
              /\ pc' = pc
              /\ curr' = curr
              /\ visited' = visited
              /\ fungicide' = fungicide
              /\ stored' = stored
              /\ fetches' = fetches
        /\ \A w \in Workers :
              /\ pc'[w] \notin {"pop", "requeue"} => curr'[w].retries <= maxRetries
              /\ pc'[w] = "requeue" => curr'[w].retries <= maxRetries + 1]_vars

\* C1 witness: an over-retried item has been popped and dropped.
C1_Witness == last = "overRetried" /\ \A w \in Workers : pc[w] = "pop"

\* C2 (as claimed): when the visited check fails, the location is neither
\* marked nor fetched and the item is back in the ingress list exactly once,
\* with retries one higher, before the goroutine pops again.
C2_RequeuedExactlyOnce ==
    [][\A w \in Workers :
          /\ (pc[w] = "isVisited" /\ pc'[w] = "requeue")
               => /\ curr'[w] = IngressItem(curr[w].location, curr[w].retries + 1)
                  /\ visited' = visited
                  /\ fetches' = fetches
          /\ (pc[w] = "requeue" /\ pc'[w] = "pop")
               => /\ frontier' = Append(frontier, Marshal(curr[w]))
                  /\ visited' = visited
                  /\ fetches' = fetches]_vars

\* C3 (as claimed): whenever a goroutine is about to fetch a location, that
\* location is in the visited set, also in runs where store calls fail.
C3_MarkedBeforeFetch ==
    \A w \in Workers : pc[w] = "getPage" => curr[w].location \in visited

\* C4: no step removes a location from the visited set, and a mark that
\* succeeds puts its location in the set; so a location once marked is
\* answered "visited" ever after.
C4_VisitedMonotonic ==
    [][ /\ visited \subseteq visited'
        /\ \A w \in Workers :
              (pc[w] = "visit" /\ StepOf(w) /\ faults' = faults)
                  => curr[w].location \in visited']_vars

\* C4 witness: two locations are marked and a later check of a marked
\* location has been answered "visited".
C4_Witness == Cardinality(visited) >= 2 /\ last = "visited"

\* C5: with one goroutine and no failed call on the visited set, no
\* location is fetched more than once, and an item goes past the visited
\* check only if its location is not marked.
C5_FetchedAtMostOnce ==
    (numCrawlers = 1 /\ ~visitedErr)
        => /\ \A l \in Locations : fetches[l] <= 1
           /\ \A w \in Workers : pc[w] = "visit" => curr[w].location \notin visited

\* C5 witness: the seed list names LocA twice; LocA has been fetched once
\* and its second delivery has been dropped as visited.
C5_Witness ==
    /\ numCrawlers = 1
    /\ ~visitedErr
    /\ seed = <<LocA, LocA>>
    /\ leftover = <<>>
    /\ fetches[LocA] = 1
    /\ last = "visited"

\* C6 (as claimed): with the shared blacklist configured, a location whose
\* host name is in the blacklist is never fetched, handed off or stored.
C6_BlacklistedNeverFetched ==
    \A w \in Workers :
        (myceliumBlacklistKey # ""
         /\ pc[w] \in {"getPage", "pushToFungicide", "store", "pushLinks"})
            => Hostname(curr[w].location) \notin blacklist

\* C7 (as claimed): with evil.com in the shared blacklist, a lookup that is
\* answered drops an item at sub.evil.com and lets an item at notevil.com go
\* on to the fetch.
C7_BlacklistBySuffix ==
    [][\A w \in Workers :
          (/\ <<"evil", "com">> \in blacklist
           /\ pc[w] = "isBlacklisted"
           /\ StepOf(w)
           /\ faults' = faults)
              => /\ curr[w].location = LocSub => pc'[w] = "pop"
                 /\ curr[w].location = LocNotEvil => pc'[w] = "getPage"]_vars

\* A host name matches an entry by whole labels: it equals the entry or the
\* entry is a proper suffix of it.
MatchesByLabels(domains, host) ==
    \E d \in domains :
        /\ Len(d) >= 1
        /\ Len(d) <= Len(host)
        /\ SubSeq(host, Len(host) - Len(d) + 1, Len(host)) = d

\* C8 (as claimed): Filter answers true exactly when the URL is not nil and
\* its lower-cased host name equals an entry or is a subdomain of an entry
\* by whole labels, for entries of any number of labels.
C8_FilterIsLabelSuffixMatch ==
    fPc = "done" => (fOut <=> (~fNil /\ MatchesByLabels(fDomains, ToLower(fHost))))

\* What Seed pushes for a seed list.
SeedItems(list) == [i \in 1..Len(list) |-> Marshal(IngressItem(list[i], 0))]

\* C9: before the crawl starts, whenever Seed has returned without error
\* the ingress list holds what it held at startup if that was not empty,
\* and otherwise one item per element of the seed list, in order, with
\* retries 0, however many times Seed has been called; and a Seed that
\* finds the list non-empty returns nil and leaves it as it is.
C9_SeedIdempotent ==
    [][ /\ (~started' /\ seedPc' = "nil")
           => frontier' = IF leftover # <<>> THEN leftover ELSE SeedItems(seed)
        /\ (seedPc = "size" /\ seedPc' # "size" /\ faults' = faults /\ frontier # <<>>)
           => (seedPc' = "nil" /\ frontier' = frontier)]_vars

\* C9 witness: Seed has returned nil twice on a store that was empty at
\* startup, with a seed list that is not empty.
C9_Witness ==
    /\ ~started
    /\ seedPc = "nil"
    /\ seedCalls = 2
    /\ leftover = <<>>
    /\ seed # <<>>

\* C10: a failed fetch ends the iteration: nothing is pushed to the
\* ingress list (so the item is not retried), to the handoff list or to the
\* file store, and the goroutine pops next.
C10_FetchFailureDrops ==
    [][\A w \in Workers :
          (pc[w] = "getPage" /\ pc'[w] = "pop")
              => /\ frontier' = frontier
                 /\ fungicide' = fungicide
                 /\ stored' = stored
                 /\ visited' = visited
                 /\ curr'[w] = NoItem
                 /\ last' = "fetchFailed"]_vars

\* C10 witness: a fetch has failed and the goroutine is back at the pop.
C10_Witness == last = "fetchFailed" /\ \E l \in Locations : fetches[l] >= 1

\* C11 (as claimed): a response with a bad status is a fetch failure, so a
\* goroutine that hands off, stores or queues the links of a page holds a
\* response with status 200.
C11_BadStatusIsFetchFailure ==
    \A w \in Workers :
        pc[w] \in {"pushToFungicide", "store", "pushLinks"} => resStatus[w] = 200

\* C12: a fetched page is routed by the configuration.  With a handoff
\* queue key the goroutine goes from the fetch to PushToFungicide, whose
\* success appends exactly the serialized page to the handoff list; the file
\* store is never called and no link is pushed to the ingress list.  Without
\* one it goes to Store, whose success stores the page once, and then pushes
\* one item with retries 0 per link of the page, in order; nothing is pushed
\* to the handoff list.
C12_RoutedByConfiguration ==
    [][\A w \in Workers :
          /\ (pc[w] = "getPage" /\ pc'[w] \notin {"getPage", "pop"})
                => pc'[w] = IF fungicideQueueKey # "" THEN "pushToFungicide" ELSE "store"
          /\ fungicideQueueKey # ""
                => /\ stored' = stored
                   /\ pc'[w] \notin {"store", "pushLinks"}
                   /\ (pc[w] = "pushToFungicide" /\ StepOf(w))
                         => /\ pc'[w] = "pop"
                            /\ frontier' = frontier
                            /\ fungicide' = IF faults' = faults
                                            THEN Append(fungicide,
                                                        PageJSON(curr[w].location, page[w]))
                                            ELSE fungicide
          /\ fungicideQueueKey = ""
                => /\ fungicide' = fungicide
                   /\ pc'[w] # "pushToFungicide"
                   /\ (pc[w] = "store" /\ StepOf(w))
                         => /\ stored' = IF faults' = faults
                                         THEN Append(stored, curr[w].location)
                                         ELSE stored
                            /\ frontier' = frontier
                            /\ IF page[w] = <<>>
                               THEN pc'[w] = "pop"
                               ELSE pc'[w] = "pushLinks" /\ page'[w] = page[w]
                   /\ (pc[w] = "pushLinks" /\ StepOf(w))
                         => /\ stored' = stored
                            /\ frontier' = IF faults' = faults
                                           THEN Append(frontier,
                                                       Marshal(IngressItem(Head(page[w]), 0)))
                                           ELSE frontier
                            /\ IF Len(page[w]) = 1
                               THEN pc'[w] = "pop"
                               ELSE pc'[w] = "pushLinks" /\ page'[w] = Tail(page[w])]_vars

\* C12 witness: without a handoff queue, a page with two links has been
\* stored and both links are in the ingress list with retries 0.
C12_Witness ==
    /\ fungicideQueueKey = ""
    /\ last = "stored"
    /\ stored # <<>>
    /\ \E i \in 1..Len(frontier) : \E j \in 1..Len(frontier) :
          /\ i < j
          /\ frontier[i] = Marshal(IngressItem(LocX, 0))
          /\ frontier[j] = Marshal(IngressItem(LocA, 0))

\* C13: Crawl returns only from the pop, with nothing popped; so no step
\* that works on an item (decoding, visited check, requeue, mark, URL parse,
\* filters, blacklist check, fetch, handoff, store, link push) makes Crawl
\* return, whether the step fails or not, and after it the goroutine is
\* still in its loop.
C13_PerItemErrorsIsolated ==
    [][\A w \in Workers :
          /\ (pc'[w] = "returned" /\ pc[w] # "returned")
                => /\ pc[w] = "pop"
                   /\ curr[w] = NoItem
                   /\ frontier' = frontier
          /\ ret'[w] # ret[w] => (pc[w] = "pop" /\ frontier' = frontier)
          /\ (pc[w] \notin {"pop", "returned"} /\ StepOf(w))
                => (ret'[w] = "running" /\ pc'[w] # "returned")]_vars

\* C13 witness: a handoff push has failed and every goroutine is back at
\* the pop, still running.
C13_Witness ==
    /\ ~cancelled
    /\ faults >= 1
    /\ last = "handoffFailed"
    /\ \A w \in Workers : ret[w] = "running" /\ pc[w] = "pop"

\* A pop of the ingress list fails while the context is not cancelled: the
\* only failing store call that moves no goroutine and no page.
PopFailed ==
    /\ started
    /\ ~cancelled
    /\ faults' # faults
    /\ seedPc' = seedPc
    /\ page' = page
    /\ \A w \in Workers : pc'[w] \in {pc[w], "returned"}

\* C14 (as claimed): a pop that fails with an error other than the timeout
\* makes Crawl return an error.
C14_PopFailureIsFatal ==
    [][PopFailed
          => \E w \in Workers : pc[w] = "pop" /\ pc'[w] = "returned" /\ ret'[w] = "error"]_vars

\* C16: a pop that times out on the empty ingress list changes nothing in
\* the stores and nothing of any goroutine, and Crawl returns only once the
\* context is cancelled.
C16_EmptyPopsForever ==
    [][ /\ (last' = "empty" /\ last # "empty")
           => /\ frontier = <<>>
              /\ UNCHANGED <<frontier, visited, blacklist, fungicide, stored, pc, curr, page,
                             ret, faults, fetches>>
        /\ \A w \in Workers : (ret'[w] # "running" \/ pc'[w] = "returned") => cancelled']_vars

\* C16 witness: after a fetch the ingress list is empty, a pop has timed
\* out and the goroutines are at the pop again, not cancelled.
C16_Witness ==
    /\ started
    /\ ~cancelled
    /\ frontier = <<>>
    /\ last = "empty"
    /\ \E l \in Locations : fetches[l] >= 1
    /\ \A w \in Workers : ret[w] = "running" /\ pc[w] = "pop"

\* Every goroutine started has returned.
AllReturned == \A w \in Workers : w <= numCrawlers => pc[w] = "returned"

\* C18: once the context is cancelled no request goes out any more, every
\* goroutine started returns from Crawl, and a goroutine that has returned
\* takes no further step.
C18_CancellationObserved ==
    /\ [][ /\ cancelled => fetches' = fetches
           /\ \A w \in Workers :
                 pc[w] = "returned" => (pc'[w] = "returned" /\ ret'[w] = ret[w])
           /\ AllReturned => UNCHANGED <<frontier, visited, fungicide, stored>>]_vars
    /\ (cancelled ~> AllReturned)

\* C18 witness: several goroutines were crawling, the context was cancelled
\* and all of them have returned the context's error.
C18_Witness ==
    /\ cancelled
    /\ numCrawlers >= 2
    /\ \E l \in Locations : fetches[l] >= 1
    /\ \A w \in Workers : w <= numCrawlers => (pc[w] = "returned" /\ ret[w] = "error")

\* C15 (as claimed): a batch Crawl of one goroutine on which no store call
\* has failed returns only by the idle exit: it returns nil, after exactly
\* maxIdleSeconds + 1 idle sleeps.
C15_IdleExit ==
    (numCrawlers = 1 /\ pc[1] = "returned" /\ faults = 0)
        => (ret[1] = "nil" /\ idleSeconds = maxIdleSeconds + 1)

\* C17 (as claimed): no variable in memory is written by more than one
\* goroutine; the goroutines share the external stores only.
C17_NoSharedMemory == Cardinality(indexWriters) <= 1

\* C19: over a fixed list of n >= 1 options and sequential calls, the k-th
\* call of Pick (k = 0, 1, ...) returned option k mod n, and the index stays
\* within 0..n-1 (it is the number of calls made, mod n).
C19_RoundRobin ==
    LET n == Len(options) IN
    (n >= 1 /\ indexWriters = {} /\ \A w \in Workers : picked[w] = -1)
        => /\ index \in 0..(n - 1)
           /\ index = Len(picks) % n
           /\ \A k \in 0..(Len(picks) - 1) : picks[k + 1] = String(options[(k % n) + 1])

\* Two full cycles over three options whose renderings all differ.
C19_Witness ==
    /\ Len(options) = 3
    /\ Cardinality({String(options[i]) : i \in 1..3}) = 3
    /\ Len(picks) = 6
    /\ picks[4] = picks[1] /\ picks[5] = picks[2] /\ picks[6] = picks[3]
    /\ index = 0

\* A URL is absolute: it has both a scheme and a host.
IsAbsolute(u) == u.Scheme # "" /\ u.Host # ""

\* C20 (as claimed): whatever tokens have been parsed at an absolute page
\* location, every element of Links and of ScriptLinks is an absolute URL.
C20_LinksAbsolute ==
    /\ \A i \in 1..Len(pLinks) : IsAbsolute(pLinks[i])
    /\ \A i \in 1..Len(pScriptLinks) : IsAbsolute(pScriptLinks[i])

\* Reference resolution as the claim describes it: a rooted path replaces
\* the path of the page location, a relative path replaces its last segment.
IsRootedRef(ref) == ref \in {RefRooted, RefRootX}

ResolvedAt(location, ref) ==
    LET base == UrlParse(location).url
        r == UrlParse(TrimSpace(ref)).url
    IN  [base EXCEPT !.Path = IF IsRootedRef(ref) THEN r.Path
                              ELSE SubSeq(@, 1, Len(@) - 1) \o r.Path]

\* C21 (as claimed): NormalizePageURL returns a reference that has a host
\* unchanged, and resolves a host-less path reference relative to the page
\* location: "b" at https://a.com/x gives https://a.com/b, and "/x" gives
\* https://a.com/x from every page of a.com.
C21_ResolvesAgainstLocation ==
    (pDoc = "refs" /\ pVersion = "current" /\ pRef # "" /\ ~UrlParse(TrimSpace(pRef)).err)
        => LET r == UrlParse(TrimSpace(pRef)).url IN
           /\ ~pOut.err
           /\ r.Host # "" => pOut.url = r
           /\ (r.Host = "" /\ r.Scheme = "") => pOut.url = ResolvedAt(pLocation, pRef)

\* The attributes of a token without the href and src values that fail to
\* normalize at the location.
RECURSIVE WithoutFailing(_, _)
WithoutFailing(location, attrs) ==
    IF attrs = <<>> THEN <<>>
    ELSE (IF Head(attrs).Key \in {"href", "src"} /\ NormalizePageURL(location, Head(attrs).Val).err
          THEN <<>> ELSE <<Head(attrs)>>)
             \o WithoutFailing(location, Tail(attrs))

\* C22 (as claimed): a link that fails to normalize never aborts the page:
\* no fault is raised, and whatever has been parsed so far, every
\* link-bearing token leaves the page as the same token without its
\* failing href and src values does.
C22_FailingLinkSkipped ==
    /\ ~pFault
    /\ pDoc = "links"
          => \A t \in LinkTokens :
                ParseToken(PageNow, pTag, t)
                    = ParseToken(PageNow, pTag, [t EXCEPT !.Attr = WithoutFailing(pLocation, @)])
    /\ Len(pLinks) + Len(pScriptLinks) + pErrors <= MaxAttrs * pTokens

\* C23: the example document parsed at https://a.com/ yields title T,
\* description D, headings [H] and links [https://a.com/x], with keywords,
\* content, script links and script content empty; ParseHtmlPage on the
\* whole document gives the page that the token-by-token run ends with.
C23_ExampleDocument ==
    (pDoc = "example" /\ pLocation = LocA /\ pTokens = Len(ExampleHtml))
        => /\ ~pFault
           /\ pTitle = "T"
           /\ pDescription = "D"
           /\ pHeadings = <<"H">>
           /\ Len(pLinks) = 1
           /\ UrlString(pLinks[1]) = "https://a.com/x"
           /\ pAuthor = ""
           /\ pKeywords = <<>>
           /\ pContent = <<>>
           /\ pScriptLinks = <<>>
           /\ pScriptContent = <<>>
           /\ PageNow = ParseHtmlPage(NewPage(LocA), "", ExampleHtml)

\* The whole example document has been parsed at https://a.com/.
C23_Witness ==
    /\ pDoc = "example"
    /\ pLocation = LocA
    /\ pTokens = Len(ExampleHtml)
    /\ pTokens = 16
    /\ pTitle # ""
    /\ pLinks # <<>>

\* C30 (as claimed): once a non-empty title has been recorded, no later
\* token of the stream changes it.
C30_TitleFirstWins == [][pTitle # "" => pTitle' = pTitle]_vars

\* C24: on an empty store seeded with [https://a.com/], with no handoff
\* queue and no failing call, the first cycle of one goroutine, when its
\* fetch comes back with the example HTML, holds the links [https://a.com/x]
\* and ends with the frontier holding exactly {https://a.com/x, retries 0}
\* and with https://a.com/ in the visited set.
C24_EndToEnd ==
    [][ (/\ seed = <<LocA>>
         /\ numCrawlers = 1
         /\ faults' = 0
         /\ resType[1] = "text/html"
         /\ stored = <<LocA>>
         /\ pc[1] = "pushLinks"
         /\ pc'[1] = "pop")
            => (/\ page[1] = <<"https://a.com/x">>
                /\ frontier' = <<Marshal(IngressItem("https://a.com/x", 0))>>
                /\ LocA \in visited'
                /\ last' = "stored") ]_vars

\* The state after that cycle.
C24_Witness ==
    /\ seed = <<LocA>>
    /\ numCrawlers = 1
    /\ faults = 0
    /\ pc[1] = "pop"
    /\ last = "stored"
    /\ stored = <<LocA>>
    /\ fetches[LocA] = 1
    /\ frontier = <<Marshal(IngressItem(LocX, 0))>>
    /\ visited = {LocA}

\* The ways an iteration ends by dropping the popped item.
DropOutcomes ==
    {"overRetried", "visited", "badJson", "malformed", "blocked", "blacklisted",
     "fetchFailed", "handoffFailed"}

\* C25 (as claimed): whenever an iteration has ended by dropping its item,
\* it has printed a log record that gives the reason and names the item's
\* location (a payload that does not decode has no location to name).
C25_EveryDropLogged ==
    last \in DropOutcomes
        => /\ lastLog.reason # ""
           /\ last # "badJson" => lastLog.location # ""

\* C26 (as claimed): the transfer of an outlink from the ingress list into
\* the main queue carries a retries value that is at least the value the
\* outlink had when it was popped.
C26_RetriesNeverReset ==
    [][(/\ ingress # <<>>
        /\ ingress' = Tail(ingress)
        /\ mainQueue' # mainQueue)
          => mainQueue'[Len(mainQueue')].retries >= Unmarshal(Head(ingress)).retries]_vars

\* The frontier is empty and every goroutine is back at the pop.
Drained ==
    /\ frontier = <<>>
    /\ \A w \in Workers : w <= numCrawlers => pc[w] = "pop"

\* C27: a visited check is only made on an item whose retries is at most
\* maxRetries, a failed check re-pushes the item with exactly one retry
\* more, so no entry of the frontier has more than maxRetries + 1 retries and
\* an item that entered with retries 0 is checked at most at the retries
\* 0..maxRetries and re-pushed at most maxRetries + 1 times; and once the
\* crawl has started on a finite site the frontier is drained for good,
\* even when every query of the visited set fails.
C27_RetryBounded ==
    /\ [](\A w \in Workers :
             /\ pc[w] = "isVisited" => curr[w].retries \in 0..maxRetries
             /\ pc[w] = "requeue" => curr[w].retries \in 1..(maxRetries + 1))
    /\ [](\A i \in 1..Len(frontier) : Unmarshal(frontier[i]).retries <= maxRetries + 1)
    /\ [][\A w \in Workers :
             /\ (pc[w] = "isVisited" /\ pc'[w] = "requeue")
                   => curr'[w] = IngressItem(curr[w].location, curr[w].retries + 1)
             /\ (pc[w] = "requeue" /\ pc'[w] = "pop")
                   => frontier' \in {frontier, Append(frontier, Marshal(curr[w]))}
             /\ (pc[w] # "requeue" /\ pc'[w] # pc[w] /\ Len(frontier') > Len(frontier))
                   => Unmarshal(frontier'[Len(frontier')]).retries = 0]_vars
    /\ (started ~> []Drained)

\* C27 witness: two items were seeded, every query of the visited set
\* failed (maxRetries + 1 queries per item), nothing was marked or fetched,
\* and the frontier is drained.
C27_Witness ==
    /\ Len(seed) = 2
    /\ started
    /\ Drained
    /\ faults = 2 * (maxRetries + 1)
    /\ visited = {}
    /\ \A l \in Locations : fetches[l] = 0
    /\ last = "overRetried"

\* C28: a goroutine holds a page only for a response whose Content-Type
\* starts with "text/": any other or missing type, like a transport error,
\* ends the iteration as a failed fetch with nothing handed off or stored;
\* a text/html page has the links the parser finds in the body, any other
\* text page has none, and it is handed off or stored like any page.
C28_TextOnly ==
    /\ [](\A w \in Workers :
             pc[w] \in {"store", "pushToFungicide", "pushLinks"}
                => /\ resType[w] \in {"text/plain", "text/html"}
                   /\ resType[w] = "text/html"
                         => \E links \in ServedLinks(curr[w].location) :
                               \E n \in 0..Len(links) : page[w] = SubSeq(links, n + 1, Len(links))
                   /\ resType[w] = "text/plain" => page[w] = <<>>)
    /\ [][\A w \in Workers :
             /\ (pc[w] = "getPage" /\ pc'[w] = "pop")
                   => /\ last' = "fetchFailed"
                      /\ UNCHANGED <<stored, fungicide, frontier>>
             /\ (pc[w] = "getPage" /\ pc'[w] \notin {"getPage", "pop"})
                   => pc'[w] = IF fungicideQueueKey # "" THEN "pushToFungicide" ELSE "store"
             /\ (pc[w] = "store" /\ resType[w] = "text/plain" /\ pc'[w] # pc[w] /\ faults' = faults)
                   => /\ stored' = Append(stored, curr[w].location)
                      /\ last' = "stored"
             /\ (pc[w] = "pushToFungicide" /\ resType[w] = "text/plain" /\ pc'[w] # pc[w]
                   /\ faults' = faults /\ ~cancelled)
                   => /\ fungicide' = Append(fungicide, PageJSON(curr[w].location, <<>>))
                      /\ last' = "sent"]_vars

\* C28 witness: a text/plain response has given a page without links, about
\* to be stored.
C28_Witness ==
    \E w \in Workers :
       /\ pc[w] = "store"
       /\ resType[w] = "text/plain"
       /\ page[w] = <<>>
       /\ fetches[curr[w].location] >= 1

\* C29 (as claimed): an item whose location does not parse as a URL is never
\* fetched and never put back in the frontier with its retries counter
\* incremented.
C29_MalformedNeverRetried ==
    /\ \A l \in Locations : UrlParseFails(l) => fetches[l] = 0
    /\ \A i \in 1..Len(frontier) :
          (~UnmarshalFails(frontier[i]) /\ UrlParseFails(Unmarshal(frontier[i]).location))
             => Unmarshal(frontier[i]).retries = 0

\* No element of the list occurs in it twice.
NoDuplicates(list) ==
    \A i \in 1..Len(list) : \A j \in 1..Len(list) : list[i] = list[j] => i = j

\* C31 (as claimed): a tag that adds one URL to Links (to ScriptLinks) of a
\* page whose list holds no URL twice leaves a list that holds no URL twice:
\* a reference that occurs in several tags occurs once in the list.
C31_LinksAreSets ==
    [][pVersion = "current"
          => /\ (Len(pLinks') = Len(pLinks) + 1 /\ NoDuplicates(pLinks))
                   => NoDuplicates(pLinks')
             /\ (Len(pScriptLinks') = Len(pScriptLinks) + 1 /\ NoDuplicates(pScriptLinks))
                   => NoDuplicates(pScriptLinks')]_vars

\* C32: the step in which a goroutine calls GetPage makes exactly one Pick
\* of the user-agent chooser and sends what it returned as the User-Agent
\* (the default user agent, and no Pick, when no chooser is configured); no
\* other step picks, in particular not the steps that drop an item before
\* the fetch.
C32_PickPerFetch ==
    [][LET fetchStep == \E w \in Workers : pc[w] = "getPage" /\ pc'[w] # "getPage" IN
       /\ fetchStep
             => IF userAgents = <<>>
                THEN /\ lastAgent' = defaultUserAgent
                     /\ UNCHANGED <<uaPicks, uaPicked>>
                ELSE /\ uaPicks' = uaPicks + 1
                     /\ \E i \in 1..Len(userAgents) : uaPicked' = userAgents[i]
                     /\ lastAgent' = uaPicked'
       /\ ~fetchStep => UNCHANGED <<uaPicks, uaPicked, lastAgent>>]_vars

\* C32 witness: with a chooser configured, a fetch has sent the picked user
\* agent and a later item was dropped before its fetch without a Pick.
C32_Witness ==
    /\ userAgents # <<>>
    /\ uaPicks = 1
    /\ lastAgent = "ua2"
    /\ uaPicked = "ua2"
    /\ last \in {"overRetried", "visited", "malformed", "blocked", "blacklisted"}
    /\ \E l \in Locations : fetches[l] = 1

\* C33: as long as no call on the visited set has failed, no location has
\* been requested more often than there are goroutines, and a goroutine
\* goes from its visited check on to the mark and the fetch only when the
\* location was not in the visited set at the time of the check.
C33_DuplicateWorkBounded ==
    /\ [](~visitedErr => \A l \in Locations : fetches[l] <= numCrawlers)
    /\ [][\A w \in Workers :
             (pc[w] = "isVisited" /\ pc'[w] = "visit") => curr[w].location \notin visited]_vars
    /\ [](~visitedErr
            => \A w \in Workers :
                  pc[w] \in {"isBlacklisted", "getPage"} => curr[w].location \in visited)

\* C33 witness: without any failing call two goroutines have both requested
\* the same location.
C33_Witness ==
    /\ numCrawlers = 2
    /\ faults = 0
    /\ ~visitedErr
    /\ fetches[LocA] = 2

\* C34 (as claimed): once the Seed of every instance has returned nil, the
\* frontier holds each location of the seed list exactly once.
C34_ConcurrentSeedOnce ==
    (\A i \in Instances : instPc[i] = "nil")
        => \A n \in 1..Len(seed) :
              Cardinality({k \in 1..Len(frontier) :
                              frontier[k] = Marshal(IngressItem(seed[n], 0))}) = 1

\* The options of the list are pairwise different.
DistinctOptions == \A i, j \in 1..Len(options) : options[i] = options[j] => i = j

\* C35 (as claimed): for a list of n different options, whatever the
\* interleaving of the calls, the index is within 0..n-1 and any n
\* consecutive completed picks have returned n different options.
C35_SharedRoundRobin ==
    LET n == Len(options) IN
    DistinctOptions
        => /\ index \in 0..(n - 1)
           /\ \A k \in 1..(Len(picks) - n + 1) :
                 Cardinality({picks[j] : j \in k..(k + n - 1)}) = n

\* The latest iteration dropped the item of location l after its mark (no
\* call on the visited set has failed, so the mark came before the drop).
DroppedAfterMark(l) ==
    /\ ~visitedErr
    /\ l \in visited
    /\ lastLog.location = l
    /\ last \in {"malformed", "blocked", "blacklisted", "fetchFailed", "handoffFailed"}

\* C36 (as claimed): once an item of a marked location has been dropped, no
\* goroutine requests that location, hands it off or stores it.
C36_NoFetchAfterDrop ==
    [][\A l \in Locations :
          DroppedAfterMark(l)
             => /\ fetches'[l] = fetches[l]
                /\ \A w \in Workers :
                      (pc[w] \in {"pushToFungicide", "store"} /\ pc'[w] # pc[w])
                         => curr[w].location # l]_vars

\* C36 (amended): a location never leaves the visited set, whatever happens
\* to its item afterwards, and an item whose visited check is answered while
\* its location is in the set goes no further: it is dropped, or re-pushed
\* when the check fails, with no mark, request, handoff or store.
C36_ClaimedStaysClaimed ==
    /\ [][visited \subseteq visited']_vars
    /\ [][\A w \in Workers :
             (pc[w] = "isVisited" /\ curr[w].location \in visited /\ pc'[w] # pc[w])
                => /\ pc'[w] \in {"pop", "requeue"}
                   /\ UNCHANGED <<visited, fetches, fungicide, stored>>]_vars

\* C36 witness: the first attempt on LocA was marked and its fetch failed,
\* and the second item of LocA has been dropped as visited: LocA is still
\* in the set, was requested once, and nothing was stored or handed off.
C36_Witness ==
    /\ seed = <<LocA, LocA>>
    /\ leftover = <<>>
    /\ frontier = <<>>
    /\ faults = 0
    /\ LocA \in visited
    /\ fetches[LocA] = 1
    /\ last = "visited"
    /\ stored = <<>>
    /\ fungicide = <<>>

\* C37 (as claimed): when the batch loop of a single goroutine has left
\* after it processed items, with no failing store call, it has slept
\* maxIdleSeconds + 1 times in all.
C37_IdleCumulative ==
    (numCrawlers = 1 /\ pc[1] = "returned" /\ faults = 0 /\ stored # <<>>)
        => idleSeconds = maxIdleSeconds + 1

\* C38 (as claimed): with no failing store call, the size-driven loop never
\* pops the empty queue, and when Crawl has returned it has returned nil
\* and every queued item has been processed or dropped.
C38_SizeDrivenExit ==
    faults = 0
        => /\ last # "popError"
           /\ pc[1] = "returned" => (ret[1] = "nil" /\ frontier = <<>>)


\* A step of the tokenizer loop, by the type of the token it consumed.
TokenStep(type) == pTokens' = pTokens + 1 /\ pPrev' = type /\ ~pFault'

\* C39: every text token is dispatched by the tag of the latest start tag
\* and an end tag leaves that tag as it is: a text adds to the headings,
\* the content, the script content or the title only when the latest start
\* tag is of that kind, whatever end tags came in between, and in
\* <h1>H</h1> U <p>T</p> the text after </h1> is a heading.
C39_EndTagKeepsContext ==
    /\ [][/\ TokenStep("EndTag") => (pTag' = pTag /\ PageNow' = PageNow)
          /\ TokenStep("Text")
                => /\ pTag' = pTag
                   /\ \E d \in {"T", "H", "link", TextPadded, TextBlank} :
                         PageNow' = parseHtmlTextToken(PageNow, Text(d), pTag)
                   /\ pHeadings' # pHeadings => pTag \in HeadingAtoms
                   /\ pContent' # pContent => pTag \in ContentAtoms
                   /\ pScriptContent' # pScriptContent => pTag = "script"
                   /\ pTitle' # pTitle => pTag = "title"]_vars
    /\ [](pDoc = "closed" => /\ pTokens = 3 => (pTag = "h1" /\ pHeadings = <<"H">>)
                             /\ pTokens = 4 => (pTag = "h1" /\ pHeadings = <<"H", "U">>)
                             /\ pTokens = 7 => (pHeadings = <<"H", "U">> /\ pContent = <<"T">>))

C39_Witness ==
    /\ pDoc = "closed"
    /\ pTokens = 4
    /\ pPrev = "Text"
    /\ pTag = "h1"
    /\ pHeadings = <<"H", "U">>

====
